---- MODULE Spec2Model ----
(***************************************************************************)
(* Permix: compliance-gated trading on a permissioned ledger.              *)
(*                                                                         *)
(* The module models five parts of the repository, each under its own      *)
(* specification:                                                          *)
(*   SpecVerify - the verification session: pollVerification,              *)
(*                pollPresentationStatus and the create-and-poll effect of *)
(*                the VerificationFlow component;                          *)
(*   SpecElig   - isEligibleForTier;                                       *)
(*   SpecOrder  - createDEXOrder and handlePlaceOrder (order payloads);    *)
(*   SpecBook   - getOrderBook and parseOrderBook (order book);            *)
(*   SpecFlags  - setAccountFlags (issuer account flags).                  *)
(***************************************************************************)
EXTENDS Integers, Sequences, FiniteSets, TLC

VARIABLES
    \* ---- verification session ----
    now,          \* Date.now(), in ticks
    gw,           \* the verifier gateway's record of the session
    poller,       \* which polling function drives the session
    pc,           \* position of the polling function
    start,        \* const start = Date.now()
    sleepStart,   \* time the pending setTimeout(r, intervalMs) was armed
    reqStart,     \* time the status request in flight was sent
    endTime,      \* time the polling function settled
    data,         \* last body read from the gateway
    thrown,       \* message of the error the polling function threw
    outcome,      \* how the polling function settled
    flow,         \* position of the async function of the component's effect
    step,         \* useState step
    effectDep,    \* value of step the effect last ran for
    cancelled,    \* the effect closure's cancelled flag
    mounted,      \* the component is mounted
    attributes,   \* status of the attributes list
    toast,        \* last toast shown
    pollsSent,    \* number of status requests sent
    orphan,       \* the async function of an unmounted instance of the component
    \* ---- pure builders and evaluators ----
    task,         \* which function the current input is for
    input,        \* the input drawn for it
    output,       \* the value the function returned; NoOutput before the call
    txs           \* setAccountFlags: preparedTransactions

verifVars == <<now, gw, poller, pc, start, sleepStart, reqStart, endTime, data, thrown,
               outcome, flow, step, effectDep, cancelled, mounted, attributes,
               toast, pollsSent, orphan>>
pureVars == <<task, input, output, txs>>
vars == <<now, gw, poller, pc, start, sleepStart, reqStart, endTime, data, thrown,
          outcome, flow, step, effectDep, cancelled, mounted, attributes,
          toast, pollsSent, orphan, task, input, output, txs>>

NoOutput == [none |-> TRUE]

\* The pure part at rest (used by SpecVerify).
PureIdle ==
    /\ task = "none"
    /\ input = NoOutput
    /\ output = NoOutput
    /\ txs = <<>>

(***************************************************************************)
(* Verification session                                                    *)
(***************************************************************************)

\* Polling options, in ticks (the defaults are 2000 ms / 5 min and
\* 1500 ms / 2 min; the functions take them as options).
intervalMs == 2
maxTimeMs == 4
\* The clock stops here.
MaxClock == 9

\* attrs of the effect: ageOver18 is always requested.
RequestedAttrs == [familyName |-> TRUE, givenName |-> TRUE,
                   ageOver18 |-> TRUE, nationalities |-> TRUE]

\* Terminal states a gateway can report to each polling function.
GatewayTerminal(p) ==
    IF p = "pollVerification"
    THEN {"SUCCESS", "FAILED", "CANCELLED", "EXPIRED"}
    ELSE {"success", "failed"}

GatewayPending(p) == IF p = "pollVerification" THEN "PENDING" ELSE "pending"

NoData == [state |-> "none", age_over_18 |-> "none"]

\* No instance of the component has been unmounted.
NoOrphan == [pc |-> "none", start |-> 0, sleepStart |-> 0]

VerifyInit ==
    /\ now = 0
    /\ gw = [state |-> "none", age_over_18 |-> "none"]
    /\ poller \in {"pollVerification", "pollPresentationStatus"}
    /\ pc = "idle"
    /\ start = 0
    /\ sleepStart = 0
    /\ reqStart = 0
    /\ endTime = 0
    /\ data = NoData
    /\ thrown = "none"
    /\ outcome = "none"
    /\ flow = "idle"
    /\ step = "request"
    /\ effectDep = "none"
    /\ cancelled = FALSE
    /\ mounted = (poller = "pollVerification")
    /\ attributes = "pending"
    /\ toast = "none"
    /\ pollsSent = 0
    /\ orphan = NoOrphan
    /\ PureIdle

\* Time passes.
Tick ==
    /\ now < MaxClock
    /\ now' = now + 1
    /\ UNCHANGED <<gw, poller, pc, start, sleepStart, reqStart, endTime, data, thrown,
                   outcome, flow, step, effectDep, cancelled, mounted,
                   attributes, toast, pollsSent>>
    /\ UNCHANGED <<orphan, task, input, output, txs>>

\* The wallet answers (or the session fails, is cancelled, expires) at the
\* gateway: the session leaves its pending state.
GatewayDecide ==
    /\ gw.state = GatewayPending(poller)
    /\ \E s \in GatewayTerminal(poller), a \in {"true", "false"} :
          gw' = [state |-> s,
                 age_over_18 |-> IF s \in {"SUCCESS", "success"} THEN a ELSE "none"]
    /\ UNCHANGED <<now, poller, pc, start, sleepStart, reqStart, endTime, data, thrown,
                   outcome, flow, step, effectDep, cancelled, mounted,
                   attributes, toast, pollsSent>>
    /\ UNCHANGED <<orphan, task, input, output, txs>>

\* Leaving the verification variables of the component alone.
FlowUnchanged == UNCHANGED <<flow, step, effectDep, cancelled, mounted, attributes, toast>>

\* VerificationFlow, useEffect(..., [step]): React runs the effect after a
\* commit in which step differs from the value the effect last ran for; the
\* cleanup of the previous run (cancelled = true) runs first.  The run for
\* step = 'request' starts the async function, which sends createVerification.
RunEffect ==
    /\ poller = "pollVerification"
    /\ mounted
    /\ effectDep # step
    /\ effectDep' = step
    /\ IF step = "request"
       THEN /\ cancelled' = FALSE
            /\ flow' = "awaitCreate"
       ELSE /\ cancelled' = (IF effectDep = "request" THEN TRUE ELSE cancelled)
            /\ flow' = flow
    /\ UNCHANGED <<now, gw, poller, pc, start, sleepStart, reqStart, endTime,
                   data, thrown, outcome, step, mounted, attributes, toast,
                   pollsSent>>
    /\ UNCHANGED <<orphan, task, input, output, txs>>

\* The parent unmounts the component (Back, or a step change of the
\* dashboard): the cleanup of the last effect run is called.
Unmount ==
    /\ poller = "pollVerification"
    /\ mounted
    /\ mounted' = FALSE
    /\ cancelled' = (IF effectDep = "request" THEN TRUE ELSE cancelled)
    /\ UNCHANGED <<now, gw, poller, pc, start, sleepStart, reqStart, endTime,
                   data, thrown, outcome, flow, step, effectDep, attributes,
                   toast, pollsSent>>
    /\ UNCHANGED <<orphan, task, input, output, txs>>

\* createVerification resolves: the gateway holds a pending session.  The
\* effect stops if it was cancelled; otherwise it shows the QR code
\* (setStep('scan'); setStep('verify')) and calls pollVerification, which
\* takes start = Date.now() and sends the initial read.
CreateReturn ==
    /\ flow = "awaitCreate"
    /\ gw' = [state |-> "PENDING", age_over_18 |-> "none"]
    /\ IF cancelled
       THEN /\ flow' = "finished"
            /\ UNCHANGED <<pc, start, reqStart, step, pollsSent>>
       ELSE /\ flow' = "awaitPoll"
            /\ step' = "verify"
            /\ start' = now
            /\ reqStart' = now
            /\ pc' = "reading"
            /\ pollsSent' = pollsSent + 1
    /\ UNCHANGED <<now, poller, sleepStart, endTime, data, thrown, outcome,
                   effectDep, cancelled, mounted, attributes, toast>>
    /\ UNCHANGED <<orphan, task, input, output, txs>>

\* createVerification rejects (HTTP error, abort): the catch block of the
\* effect shows the error and sets step 'scan' unless cancelled.
CreateThrow ==
    /\ flow = "awaitCreate"
    /\ flow' = "finished"
    /\ IF cancelled
       THEN UNCHANGED <<step, toast>>
       ELSE /\ step' = "scan"
            /\ toast' = "error"
    /\ UNCHANGED <<now, gw, poller, pc, start, sleepStart, reqStart, endTime,
                   data, thrown, outcome, effectDep, cancelled, mounted,
                   attributes, pollsSent>>
    /\ UNCHANGED <<orphan, task, input, output, txs>>

\* The part of the effect after `await PermiX.pollVerification(...)`, run in
\* the same turn in which the polling function settles.  d is the value it
\* resolved to, or NoData when it threw.
FlowContinue(d, threw) ==
    /\ flow' = "finished"
    /\ UNCHANGED <<effectDep, cancelled, mounted>>
    /\ IF cancelled
       THEN UNCHANGED <<step, attributes, toast>>
       ELSE IF threw
       THEN /\ step' = "scan"
            /\ toast' = "error"
            /\ UNCHANGED attributes
       ELSE IF d.state = "SUCCESS"
       THEN /\ attributes' = "verified"
            /\ step' = "complete"
            /\ toast' = "success"
       ELSE /\ step' = "scan"
            /\ toast' = "error"
            /\ UNCHANGED attributes

\* pollVerification: a getVerification request returns.  A failed request
\* rejects the poll.  A non-PENDING state ends the loop and is returned.  On
\* PENDING the loop checks the time and throws, or sleeps intervalMs.
PV_Response ==
    /\ poller = "pollVerification"
    /\ pc = "reading"
    /\ \E ok \in BOOLEAN :
        IF ~ok
        THEN /\ pc' = "threw"
             /\ thrown' = "HTTP"
             /\ outcome' = "Failed"
             /\ endTime' = now
             /\ FlowContinue(NoData, TRUE)
             /\ UNCHANGED <<data, sleepStart>>
        ELSE /\ data' = gw
             /\ IF gw.state = "PENDING"
                THEN IF now - start > maxTimeMs
                     THEN /\ pc' = "threw"
                          /\ thrown' = "Polling timeout exceeded."
                          /\ outcome' = "TimedOut"
                          /\ endTime' = now
                          /\ FlowContinue(gw, TRUE)
                          /\ UNCHANGED sleepStart
                     ELSE /\ pc' = "sleeping"
                          /\ sleepStart' = now
                          /\ UNCHANGED <<thrown, outcome, endTime>>
                          /\ FlowUnchanged
                ELSE /\ pc' = "returned"
                     /\ outcome' = (IF gw.state = "SUCCESS" THEN "Succeeded" ELSE "Failed")
                     /\ endTime' = now
                     /\ FlowContinue(gw, FALSE)
                     /\ UNCHANGED <<thrown, sleepStart>>
    /\ UNCHANGED <<now, gw, poller, start, reqStart, pollsSent>>
    /\ UNCHANGED <<orphan, task, input, output, txs>>

\* setTimeout(r, intervalMs) fires, not before intervalMs have passed: the
\* loop sends the next status request.
SleepWake ==
    /\ pc = "sleeping"
    /\ now >= sleepStart + intervalMs
    /\ pc' = "reading"
    /\ reqStart' = now
    /\ pollsSent' = pollsSent + 1
    /\ UNCHANGED <<now, gw, poller, start, sleepStart, endTime, data, thrown,
                   outcome>>
    /\ FlowUnchanged
    /\ UNCHANGED <<orphan, task, input, output, txs>>

\* A caller invokes pollPresentationStatus for a session createVerifierSession
\* has created: start = Date.now() and the first fetch is sent.
PPS_Call ==
    /\ poller = "pollPresentationStatus"
    /\ pc = "idle"
    /\ gw' = [state |-> "pending", age_over_18 |-> "none"]
    /\ start' = now
    /\ reqStart' = now
    /\ pc' = "reading"
    /\ pollsSent' = pollsSent + 1
    /\ UNCHANGED <<now, poller, sleepStart, endTime, data, thrown, outcome>>
    /\ FlowUnchanged
    /\ UNCHANGED <<orphan, task, input, output, txs>>

\* pollPresentationStatus: a fetch returns.  !res.ok throws; a body with
\* status "success" is returned, "failed" throws; an empty body or any other
\* status falls through to the time check, which throws or sleeps intervalMs.
PPS_Response ==
    /\ poller = "pollPresentationStatus"
    /\ pc = "reading"
    /\ \E ok \in BOOLEAN, body \in {"json", "empty"} :
        IF ~ok
        THEN /\ pc' = "threw"
             /\ thrown' = "Verifier status error"
             /\ outcome' = "Failed"
             /\ endTime' = now
             /\ UNCHANGED <<data, sleepStart>>
        ELSE /\ data' = (IF body = "json" THEN gw ELSE NoData)
             /\ IF body = "json" /\ gw.state = "success"
                THEN /\ pc' = "returned"
                     /\ outcome' = "Succeeded"
                     /\ endTime' = now
                     /\ UNCHANGED <<thrown, sleepStart>>
                ELSE IF body = "json" /\ gw.state = "failed"
                THEN /\ pc' = "threw"
                     /\ thrown' = "Presentation failed"
                     /\ outcome' = "Failed"
                     /\ endTime' = now
                     /\ UNCHANGED sleepStart
                ELSE IF now - start > maxTimeMs
                THEN /\ pc' = "threw"
                     /\ thrown' = "Presentation polling timed out"
                     /\ outcome' = "TimedOut"
                     /\ endTime' = now
                     /\ UNCHANGED sleepStart
                ELSE /\ pc' = "sleeping"
                     /\ sleepStart' = now
                     /\ UNCHANGED <<thrown, outcome, endTime>>
    /\ UNCHANGED <<now, gw, poller, start, reqStart, pollsSent>>
    /\ FlowUnchanged
    /\ UNCHANGED <<orphan, task, input, output, txs>>

\* The parent renders the component again after it was unmounted (Back, then
\* the domain is selected again): a new instance starts at step 'request'
\* with its own state.  Nothing stops the async function of the unmounted
\* instance: its pending createVerification, request or timer stays.
Mount ==
    /\ poller = "pollVerification"
    /\ ~mounted
    /\ orphan = NoOrphan
    /\ orphan' = [pc |-> IF flow = "awaitCreate" THEN "creating"
                          ELSE IF pc \in {"reading", "sleeping"} THEN pc
                          ELSE "done",
                   start |-> start,
                   sleepStart |-> sleepStart]
    /\ mounted' = TRUE
    /\ step' = "request"
    /\ effectDep' = "none"
    /\ cancelled' = FALSE
    /\ flow' = "idle"
    /\ attributes' = "pending"
    /\ gw' = NoData
    /\ pc' = "idle"
    /\ start' = 0
    /\ sleepStart' = 0
    /\ reqStart' = 0
    /\ endTime' = 0
    /\ data' = NoData
    /\ thrown' = "none"
    /\ outcome' = "none"
    /\ UNCHANGED <<now, poller, toast, pollsSent>>
    /\ UNCHANGED pureVars

\* createVerification of the unmounted instance resolves or rejects: its
\* cancelled flag is set, the async function returns.
OrphanCreateReturn ==
    /\ orphan.pc = "creating"
    /\ orphan' = [orphan EXCEPT !.pc = "done"]
    /\ UNCHANGED <<now, gw, poller, pc, start, sleepStart, reqStart, endTime, data,
                   thrown, outcome, pollsSent>>
    /\ FlowUnchanged
    /\ UNCHANGED pureVars

\* pollVerification of the unmounted instance: its request returns.  On
\* PENDING within maxTimeMs the loop sleeps; otherwise the poll settles and
\* the effect, its cancelled flag set, drops the result.
OrphanResponse ==
    /\ orphan.pc = "reading"
    /\ \E pending \in BOOLEAN :
          orphan' = IF pending /\ ~(now - orphan.start > maxTimeMs)
                    THEN [orphan EXCEPT !.pc = "sleeping", !.sleepStart = now]
                    ELSE [orphan EXCEPT !.pc = "done"]
    /\ UNCHANGED <<now, gw, poller, pc, start, sleepStart, reqStart, endTime, data,
                   thrown, outcome, pollsSent>>
    /\ FlowUnchanged
    /\ UNCHANGED pureVars

\* The timer of the unmounted instance fires: its loop sends the next status
\* request.
OrphanWake ==
    /\ orphan.pc = "sleeping"
    /\ now >= orphan.sleepStart + intervalMs
    /\ orphan' = [orphan EXCEPT !.pc = "reading"]
    /\ pollsSent' = pollsSent + 1
    /\ UNCHANGED <<now, gw, poller, pc, start, sleepStart, reqStart, endTime, data,
                   thrown, outcome>>
    /\ FlowUnchanged
    /\ UNCHANGED pureVars

VerifyNext ==
    \/ Tick
    \/ GatewayDecide
    \/ RunEffect
    \/ Unmount
    \/ CreateReturn
    \/ CreateThrow
    \/ PV_Response
    \/ SleepWake
    \/ PPS_Call
    \/ PPS_Response
    \/ Mount
    \/ OrphanCreateReturn
    \/ OrphanResponse
    \/ OrphanWake

SpecVerify == VerifyInit /\ [][VerifyNext]_vars

\* The polling function has settled.
Settled == pc \in {"returned", "threw"}

\* The gateway reported terminal success in the last body read.
ReportedSuccess == data.state \in {"SUCCESS", "success"}

\* The session's position on Created -> AwaitingPresentation -> Polling ->
\* terminal: 0 before the gateway holds the session, 1 once it does, 2 while
\* the polling function runs, 3 once it has settled.
Rank ==
    IF Settled THEN 3
    ELSE IF pc \in {"reading", "sleeping"} THEN 2
    ELSE IF gw.state # "none" THEN 1
    ELSE 0

\* C1: when age-over-18 was requested and the gateway reports success with
\* age_over_18 = "false", the session ends Failed: the flow is not at step
\* 'complete' and the attributes are not marked verified.
C1_LocalReverification ==
    (RequestedAttrs.ageOver18 /\ pc = "returned" /\ ReportedSuccess
        /\ data.age_over_18 = "false")
    => (outcome = "Failed" /\ step # "complete" /\ attributes # "verified")

\* C7: the session times out at exactly the ceiling: no sleep and no status
\* request is started once maxTimeMs have elapsed since start, and a session
\* that timed out ended exactly maxTimeMs after start.
C7_TimedOutAtCeiling ==
    /\ (pc = "sleeping" => sleepStart - start < maxTimeMs)
    /\ (pc = "reading" => reqStart - start < maxTimeMs)
    /\ (outcome = "TimedOut" => endTime - start = maxTimeMs)

\* C8: the session is polled only after it was created, it settles only after
\* it was polled, and its terminal state is TimedOut whenever more than
\* maxTimeMs have elapsed, whatever the gateway reports then; otherwise
\* Succeeded on a reported success and Failed on a reported failure or
\* cancellation.
C8_TerminalRule ==
    /\ (Rank >= 2 => gw.state # "none")
    /\ (Settled => pollsSent > 0)
    /\ (Settled => outcome \in {"Succeeded", "Failed", "TimedOut"})
    /\ (Settled /\ endTime - start > maxTimeMs
            /\ thrown \notin {"HTTP", "Verifier status error"}
            => outcome = "TimedOut")
    /\ (Settled /\ endTime - start <= maxTimeMs /\ pc = "returned" /\ ReportedSuccess
            => outcome = "Succeeded")
    /\ (Settled /\ endTime - start <= maxTimeMs /\ data.state \in {"FAILED", "CANCELLED", "failed"}
            /\ thrown \notin {"HTTP", "Verifier status error"}
            => outcome = "Failed")

(***************************************************************************)
(* Pure builders and evaluators: the input is drawn in the initial state   *)
(* and one action calls the function.                                      *)
(***************************************************************************)

\* The verification part at rest (used by the specifications below).
VerifyIdle ==
    /\ now = 0
    /\ gw = NoData
    /\ poller = "none"
    /\ pc = "idle"
    /\ start = 0
    /\ sleepStart = 0
    /\ reqStart = 0
    /\ endTime = 0
    /\ data = NoData
    /\ thrown = "none"
    /\ outcome = "none"
    /\ flow = "idle"
    /\ step = "request"
    /\ effectDep = "none"
    /\ cancelled = FALSE
    /\ mounted = FALSE
    /\ attributes = "pending"
    /\ toast = "none"
    /\ pollsSent = 0
    /\ orphan = NoOrphan

\* All sequences over S of length at most n.
SeqsUpTo(S, n) == UNION {[1..k -> S] : k \in 0..n}

(***************************************************************************)
(* Eligibility: isEligibleForTier                                          *)
(***************************************************************************)

MaxCreds == 2
MaxCriteria == 2

\* lsfAccepted, the flag the code tests with Flags & 0x00010000.
lsfAccepted == 65536

\* Absent Expiration field.
NoExpiration == 0
\* Close time of the validated ledger the credentials were read from.
LedgerTime == 2

Issuers == {"isabel", "regulator"}
CredentialTypes == {"KYC", "AML"}

\* Credential objects as account_objects returns them.
LedgerCredentials ==
    [Issuer : Issuers, CredentialType : CredentialTypes,
     Flags : {0, lsfAccepted}, Expiration : {NoExpiration, 1, 3}]

TierCriteria == [Issuer : Issuers, CredentialType : CredentialTypes]

\* f & bit # 0, for bit a power of two.
FlagSet(f, bit) == (f \div bit) % 2 = 1

\* for (userCred of userCredentials) for (criteria of tierCriteria)
\*   if (Issuer, CredentialType equal and accepted) return true;  return false
isEligibleForTier(userCredentials, tierCriteria) ==
    \E i \in 1..Len(userCredentials), j \in 1..Len(tierCriteria) :
        /\ userCredentials[i].Issuer = tierCriteria[j].Issuer
        /\ userCredentials[i].CredentialType = tierCriteria[j].CredentialType
        /\ FlagSet(userCredentials[i].Flags, lsfAccepted)

EligInit ==
    /\ VerifyIdle
    /\ task = "isEligibleForTier"
    /\ input \in [userCredentials : SeqsUpTo(LedgerCredentials, MaxCreds),
                  tierCriteria : SeqsUpTo(TierCriteria, MaxCriteria)]
    /\ output = NoOutput
    /\ txs = <<>>

CallIsEligibleForTier ==
    /\ task = "isEligibleForTier"
    /\ output = NoOutput
    /\ output' = [result |-> isEligibleForTier(input.userCredentials, input.tierCriteria)]
    /\ UNCHANGED <<task, input, txs>>
    /\ UNCHANGED verifVars

EligNext == CallIsEligibleForTier

SpecElig == EligInit /\ [][EligNext]_vars

\* The credential is accepted.
Accepted(c) == FlagSet(c.Flags, lsfAccepted)
\* The credential's expiration is set and not in the future.
Expired(c) == c.Expiration # NoExpiration /\ c.Expiration <= LedgerTime
\* The pair (c.issuer, c.type) is in the policy.
InPolicy(c, policy) ==
    \E j \in 1..Len(policy) :
        policy[j] = [Issuer |-> c.Issuer, CredentialType |-> c.CredentialType]

\* C2: for a single held credential c the check returns true iff c is
\* accepted, c is not expired and (c.issuer, c.type) is in the policy.
C2_SingleCredentialIff ==
    (task = "isEligibleForTier" /\ output # NoOutput /\ Len(input.userCredentials) = 1)
    => (output.result <=>
            /\ Accepted(input.userCredentials[1])
            /\ ~Expired(input.userCredentials[1])
            /\ InPolicy(input.userCredentials[1], input.tierCriteria))

\* C9: with an empty policy the check returns true for every list
\* of held credentials.
C9_EmptyPolicyEligible ==
    (task = "isEligibleForTier" /\ output # NoOutput /\ input.tierCriteria = <<>>)
    => output.result = TRUE

(***************************************************************************)
(* Decimal numbers.  A decimal string or number is [m, d]: the value       *)
(* m / 10^d, written with d digits after the point.                        *)
(***************************************************************************)

Dec(m, d) == [m |-> m, d |-> d]

RECURSIVE Norm(_)
\* The same value with no trailing zero after the point.
Norm(a) == IF a.d > 0 /\ a.m % 10 = 0 THEN Norm(Dec(a.m \div 10, a.d - 1)) ELSE a

\* a and b are the same number.
NumEq(a, b) == Norm(a) = Norm(b)

\* parseFloat(a) * parseFloat(b)
Mul(a, b) == Dec(a.m * b.m, a.d + b.d)

\* Number.prototype.toString: the number written with no trailing zero.
NumToString(a) == Norm(a)

\* Number.prototype.toFixed(6): rounded to six digits after the point and
\* written with exactly six.
ToFixed6(a) ==
    IF a.d <= 6
    THEN Dec(a.m * 10^(6 - a.d), 6)
    ELSE Dec((a.m + (10^(a.d - 6)) \div 2) \div 10^(a.d - 6), 6)

(***************************************************************************)
(* Order payloads: createDEXOrder and handlePlaceOrder                     *)
(***************************************************************************)

\* Text typed into the amount and price fields.
AmountTexts == {Dec(100, 0), Dec(5, 0), Dec(12, 1)}
PriceTexts == {Dec(2, 0), Dec(5, 1), Dec(909091, 6)}

\* Trading pairs of the callers; the native currency has no issuer.
TradingPairs ==
    { [baseCurrency |-> "DDD", baseIssuer |-> "rUser2",
       quoteCurrency |-> "CCC", quoteIssuer |-> "rUser2"],
      [baseCurrency |-> "EURX", baseIssuer |-> "rIssuer",
       quoteCurrency |-> "XRP", quoteIssuer |-> "undefined"],
      [baseCurrency |-> "XRP", baseIssuer |-> "undefined",
       quoteCurrency |-> "CCC", quoteIssuer |-> "rUser2"] }

\* The pair handlePlaceOrder is written for: DDD/CCC, both issued by the
\* user's own address.
PlacePair ==
    [baseCurrency |-> "DDD", baseIssuer |-> "rUser2",
     quoteCurrency |-> "CCC", quoteIssuer |-> "rUser2"]

\* const domainId of the PermissionedDEX component.
FixedDomainID == "D04BB88665B23434A0B814E6F12F66CC2C91AEA6CB0736B08988BFB0FA86A1B9"

DomainIds == {FixedDomainID, "DOMAIN_B"}

\* A structured token amount and a bare string amount.
TokenAmount(c, i, v) == [type |-> "object", currency |-> c, issuer |-> i, value |-> v]
StringAmount(v) == [type |-> "string", value |-> v]

\* createDEXOrder, the OfferCreate it builds from side, pair, amount and
\* total = (parseFloat(amount) * parseFloat(price)).toString().
DexOffer(accountAddress, domainId, pair, side, amount, price) ==
    LET total == NumToString(Mul(amount, price))
        baseAmt == TokenAmount(pair.baseCurrency, pair.baseIssuer, amount)
        quoteAmt == IF pair.quoteCurrency = "XRP"
                    THEN StringAmount(total)
                    ELSE TokenAmount(pair.quoteCurrency, pair.quoteIssuer, total)
    IN  [TransactionType |-> "OfferCreate",
         Account |-> accountAddress,
         TakerGets |-> IF side = "buy" THEN baseAmt ELSE quoteAmt,
         TakerPays |-> IF side = "buy" THEN quoteAmt ELSE baseAmt,
         DomainID |-> domainId]

\* handlePlaceOrder, the offerTx it builds from orderType, amount and price:
\* always DDD/CCC of user2Address, the total written with toFixed(6), and the
\* component's constant domainId.
PlaceOffer(walletAddress, user2Address, orderType, amount, price) ==
    LET ddd == TokenAmount("DDD", user2Address, amount)
        ccc == TokenAmount("CCC", user2Address, ToFixed6(Mul(amount, price)))
    IN  [TransactionType |-> "OfferCreate",
         Account |-> walletAddress,
         TakerGets |-> IF orderType = "sell" THEN ccc ELSE ddd,
         TakerPays |-> IF orderType = "sell" THEN ddd ELSE ccc,
         DomainID |-> FixedDomainID]

NoTransaction == [TransactionType |-> "none"]

\* tfHybrid, the OfferCreate flag of a hybrid offer (0x00100000).
tfHybrid == 1048576

\* Legs a caller hands to createDEXOrder of services/permissioned-dex.ts:
\* {currency, issuer?, value}.
TakerLegs ==
    { [currency |-> "DDD", issuer |-> "rUser2"],
      [currency |-> "CCC", issuer |-> "rUser2"],
      [currency |-> "XRP", issuer |-> "undefined"],
      [currency |-> "EURX", issuer |-> "undefined"] }

\* The Amount built for a leg: XRP is just the value string, an IOU is an
\* object.
LegToAmount(leg, value) ==
    IF leg.currency = "XRP"
    THEN StringAmount(value)
    ELSE TokenAmount(leg.currency, leg.issuer, value)

\* createDEXOrder of services/permissioned-dex.ts, the offerCreate it builds:
\* the two amounts, DomainID: domainId, and Flags with tfHybrid if isHybrid.
PermissionedOfferCreate(accountAddress, domainId, takerGets, takerPays, isHybrid) ==
    LET offerCreate == [TransactionType |-> "OfferCreate",
                        Account |-> accountAddress,
                        TakerGets |-> LegToAmount(takerGets.leg, takerGets.value),
                        TakerPays |-> LegToAmount(takerPays.leg, takerPays.value),
                        DomainID |-> domainId]
    IN  IF isHybrid
        THEN [f \in DOMAIN offerCreate \cup {"Flags"} |->
                 IF f = "Flags" THEN tfHybrid ELSE offerCreate[f]]
        ELSE offerCreate

\* Results the ledger can give a submitted offer; "throw" is a rejected call.
TxResults == {"tesSUCCESS", "tecUNFUNDED_OFFER", "Unknown", "throw"}

OrderInit ==
    /\ VerifyIdle
    /\ \/ /\ task \in {"createDEXOrder", "handlePlaceOrder"}
          /\ input \in [pair : TradingPairs, side : {"buy", "sell"},
                        amount : AmountTexts, price : PriceTexts,
                        domainId : DomainIds,
                        isMember : BOOLEAN, ledgerOk : BOOLEAN,
                        txResult : TxResults]
          /\ task = "handlePlaceOrder" => input.pair = PlacePair
          /\ task = "createDEXOrder" => input.txResult = "tesSUCCESS"
       \/ /\ task = "permissioned-dex.createDEXOrder"
          /\ input \in [takerGets : [leg : TakerLegs, value : AmountTexts],
                        takerPays : [leg : TakerLegs, value : AmountTexts],
                        domainId : DomainIds \cup {""},
                        isHybrid : BOOLEAN, isMember : BOOLEAN, ledgerOk : BOOLEAN]
    /\ output = NoOutput
    /\ txs = <<>>

\* createDEXOrder(client, accountAddress, domainId, pair, side, amount, price):
\* refuses an account isDomainMember does not find in the domain, builds the
\* offer, autofills it; any throw becomes success: false.
CallCreateDEXOrder ==
    /\ task = "createDEXOrder"
    /\ output = NoOutput
    /\ output' =
        IF ~input.isMember
        THEN [built |-> FALSE, success |-> FALSE, transaction |-> NoTransaction,
              error |-> "Account is not a member of the DEX domain. Please join the domain first."]
        ELSE IF ~input.ledgerOk
        THEN [built |-> FALSE, success |-> FALSE, transaction |-> NoTransaction,
              error |-> "Unknown error"]
        ELSE [built |-> TRUE, success |-> TRUE,
              transaction |-> DexOffer("rUser2", input.domainId, input.pair,
                                       input.side, input.amount, input.price),
              error |-> "none"]
    /\ UNCHANGED <<task, input, txs>>
    /\ UNCHANGED verifVars

\* handlePlaceOrder of the PermissionedDEX component: with amount and price
\* typed and the client connected it builds offerTx, autofills, signs and
\* submits it, and reports the result in a toast.
CallHandlePlaceOrder ==
    /\ task = "handlePlaceOrder"
    /\ output = NoOutput
    /\ output' =
        IF ~input.ledgerOk
        THEN [built |-> FALSE, success |-> FALSE, transaction |-> NoTransaction,
              error |-> "Wallet not connected"]
        ELSE LET tx == PlaceOffer("rUser2", "rUser2", input.side, input.amount, input.price)
             IN  IF input.txResult = "throw"
                 THEN [built |-> TRUE, success |-> FALSE, transaction |-> tx,
                       error |-> "Error: Unknown error"]
                 ELSE IF input.txResult = "tesSUCCESS"
                 THEN [built |-> TRUE, success |-> TRUE, transaction |-> tx,
                       error |-> "none"]
                 ELSE [built |-> TRUE, success |-> FALSE, transaction |-> tx,
                       error |-> input.txResult]
    /\ UNCHANGED <<task, input, txs>>
    /\ UNCHANGED verifVars

\* createDEXOrder(client, accountAddress, domainId, takerGets, takerPays,
\* isHybrid) of services/permissioned-dex.ts: refuses an IOU leg without
\* issuer and a hybrid offer without domain, builds the offer, autofills it;
\* any throw becomes success: false.
CallCreatePermissionedOffer ==
    /\ task = "permissioned-dex.createDEXOrder"
    /\ output = NoOutput
    /\ output' =
        IF input.takerGets.leg.currency # "XRP" /\ input.takerGets.leg.issuer = "undefined"
        THEN [built |-> FALSE, success |-> FALSE, transaction |-> NoTransaction,
              error |-> "TakerGets currency requires an issuer"]
        ELSE IF input.takerPays.leg.currency # "XRP" /\ input.takerPays.leg.issuer = "undefined"
        THEN [built |-> FALSE, success |-> FALSE, transaction |-> NoTransaction,
              error |-> "TakerPays currency requires an issuer"]
        ELSE IF input.isHybrid /\ input.domainId = ""
        THEN [built |-> FALSE, success |-> FALSE, transaction |-> NoTransaction,
              error |-> "Hybrid offers require a DomainID"]
        ELSE IF ~input.ledgerOk
        THEN [built |-> FALSE, success |-> FALSE, transaction |-> NoTransaction,
              error |-> "Unknown error"]
        ELSE [built |-> TRUE, success |-> TRUE,
              transaction |-> PermissionedOfferCreate("rUser2", input.domainId,
                                  input.takerGets, input.takerPays, input.isHybrid),
              error |-> "none"]
    /\ UNCHANGED <<task, input, txs>>
    /\ UNCHANGED verifVars

OrderNext == CallCreateDEXOrder \/ CallHandlePlaceOrder \/ CallCreatePermissionedOffer

SpecOrder == OrderInit /\ [][OrderNext]_vars

\* The currency and issuer of an amount; a bare string is the native currency.
LegCurrency(a) == IF a.type = "string" THEN "XRP" ELSE a.currency
LegIssuer(a) == IF a.type = "string" THEN "undefined" ELSE a.issuer

\* Amount a is value v of the pair's base (quote) currency.
IsBaseLeg(a, pair, v) ==
    /\ LegCurrency(a) = pair.baseCurrency
    /\ LegIssuer(a) = pair.baseIssuer
    /\ NumEq(a.value, v)
IsQuoteLeg(a, pair, v) ==
    /\ LegCurrency(a) = pair.quoteCurrency
    /\ LegIssuer(a) = pair.quoteIssuer
    /\ NumEq(a.value, v)

\* An order payload has been built for the input.
OrderBuilt == task \in {"createDEXOrder", "handlePlaceOrder"} /\ output # NoOutput /\ output.built

\* C3: Buy gives takerGets = quantity of base and takerPays =
\* quantity*unitPrice of quote; Sell gives the two swapped.
C3_OrderLegsExact ==
    OrderBuilt =>
        LET tx == output.transaction
            total == Mul(input.amount, input.price)
        IN  IF input.side = "buy"
            THEN /\ IsBaseLeg(tx.TakerGets, input.pair, input.amount)
                 /\ IsQuoteLeg(tx.TakerPays, input.pair, total)
            ELSE /\ IsQuoteLeg(tx.TakerGets, input.pair, total)
                 /\ IsBaseLeg(tx.TakerPays, input.pair, input.amount)

(***************************************************************************)
(* Order book: getOrderBook and parseOrderBook                             *)
(***************************************************************************)

MaxOffers == 2

\* The legs a raw offer of the ledger can carry: issued tokens and the native
\* currency, which is a bare string.
OfferLegs ==
    { [type |-> "object", currency |-> "DDD", issuer |-> "rUser2"],
      [type |-> "object", currency |-> "CCC", issuer |-> "rUser2"],
      [type |-> "object", currency |-> "CCC", issuer |-> "rOther"],
      [type |-> "string"] }

\* Values of the two legs of an offer.
ValuePairs == {<<10, 5>>, <<5, 10>>, <<10, 10>>, <<10, 3>>, <<10, 0>>, <<0, 5>>}

LegAmount(leg, v) ==
    IF leg.type = "string"
    THEN StringAmount(Dec(v, 0))
    ELSE TokenAmount(leg.currency, leg.issuer, Dec(v, 0))

\* Raw offers, before the ledger numbers them.
RawOffers ==
    UNION { { [TakerGets |-> LegAmount(g, vp[1]), TakerPays |-> LegAmount(p, vp[2])] :
                p \in OfferLegs \ {g}, vp \in ValuePairs } : g \in OfferLegs }

\* The offers as the ledger returns them: Account and Sequence added, the
\* Sequence growing along the list.
Numbered(raw) ==
    [i \in 1..Len(raw) |->
        [TakerGets |-> raw[i].TakerGets, TakerPays |-> raw[i].TakerPays,
         Account |-> "rUser2", Sequence |-> i]]

\* Pairs getOrderBook is asked for.
BookPairs ==
    { PlacePair,
      [baseCurrency |-> "DDD", baseIssuer |-> "rUser2",
       quoteCurrency |-> "XRP", quoteIssuer |-> "undefined"] }

\* s sorted by Array.prototype.sort, a stable sort; less[i][j] tells whether
\* the comparator is negative on (s[i], s[j]).
StableSort(s, less) ==
    LET n == Len(s)
        Before(j, i) == less[j][i] \/ (~less[i][j] /\ j < i)
        pos(i) == 1 + Cardinality({j \in 1..n : j # i /\ Before(j, i)})
    IN  [k \in 1..n |-> s[CHOOSE i \in 1..n : pos(i) = k]]

\* getValue / parseFloat of an amount: the number of a bare string, or of the
\* value field of a structured amount.
getValue(amount) == amount.value

\* x / y - u / v < 0 for decimals >= 0 that are not both zero in one quotient;
\* a quotient by zero is Infinity, and Infinity - Infinity is not negative.
QuotLess(x, y, u, v) ==
    x.m * 10^y.d * v.m * 10^u.d < u.m * 10^v.d * y.m * 10^x.d

\* The texts "Infinity" and "NaN" that toFixed gives for a quotient by zero,
\* and the numbers parseFloat reads from them.
Infinity == [m |-> 1, d |-> -1]
NotANumber == [m |-> 0, d |-> -1]
IsFinite(a) == a.d >= 0

\* (parseFloat(x) / parseFloat(y)).toFixed(6) for decimals x >= 0 and y > 0:
\* long division to seven digits after the point, rounded to six.
FiniteDivToFixed6(x, y) ==
    LET num == x.m * 10^y.d
        den == y.m * 10^x.d
        r0 == num % den
        r1 == (r0 * 10) % den
        r2 == (r1 * 10) % den
        r3 == (r2 * 10) % den
        r4 == (r3 * 10) % den
        r5 == (r4 * 10) % den
        r6 == (r5 * 10) % den
        micro == (num \div den) * 1000000
                 + ((r0 * 10) \div den) * 100000
                 + ((r1 * 10) \div den) * 10000
                 + ((r2 * 10) \div den) * 1000
                 + ((r3 * 10) \div den) * 100
                 + ((r4 * 10) \div den) * 10
                 + ((r5 * 10) \div den)
    IN  Dec(micro + (IF (r6 * 10) \div den >= 5 THEN 1 ELSE 0), 6)

\* (parseFloat(x) / parseFloat(y)).toFixed(6): a quotient by zero is Infinity,
\* or NaN when the dividend is zero too.
DivToFixed6(x, y) ==
    IF y.m # 0 THEN FiniteDivToFixed6(x, y)
    ELSE IF x.m # 0 THEN Infinity
    ELSE NotANumber

\* a - b < 0 for the numbers parseFloat reads: never with a NaN, never with a
\* = Infinity, always with a finite and b = Infinity.
DecLess(a, b) ==
    IF a = NotANumber \/ b = NotANumber \/ a = Infinity THEN FALSE
    ELSE IF b = Infinity THEN TRUE
    ELSE LET k == IF a.d < b.d THEN a.d ELSE b.d
         IN  a.m * 10^(b.d - k) < b.m * 10^(a.d - k)

\* getOrderBook, the classification loop: buys are the offers whose TakerGets
\* is a structured amount of the base currency, sells the other offers whose
\* TakerPays is, both in the order of the reply.
BuysAndSells(offers, pair) ==
    LET IsBuy(o) == o.TakerGets.type = "object" /\ o.TakerGets.currency = pair.baseCurrency
        IsSell(o) == ~IsBuy(o) /\ o.TakerPays.type = "object"
                     /\ o.TakerPays.currency = pair.baseCurrency
    IN  [buys |-> SelectSeq(offers, IsBuy), sells |-> SelectSeq(offers, IsSell)]

\* The comparators of buys.sort and sells.sort, on TakerPays / TakerGets:
\* priceB - priceA < 0 for buys and priceA - priceB < 0 for sells, told for
\* every two positions.
buysComparator(buys) ==
    [i \in 1..Len(buys) |-> [j \in 1..Len(buys) |->
        QuotLess(getValue(buys[j].TakerPays), getValue(buys[j].TakerGets),
                 getValue(buys[i].TakerPays), getValue(buys[i].TakerGets))]]
sellsComparator(sells) ==
    [i \in 1..Len(sells) |-> [j \in 1..Len(sells) |->
        QuotLess(getValue(sells[i].TakerPays), getValue(sells[i].TakerGets),
                 getValue(sells[j].TakerPays), getValue(sells[j].TakerGets))]]

\* getOrderBook, after the book_offers reply: the classification and the two
\* sorts, buys descending and sells ascending.
getOrderBook(offers, pair) ==
    LET c == BuysAndSells(offers, pair)
    IN  [buys |-> StableSort(c.buys, buysComparator(c.buys)),
         sells |-> StableSort(c.sells, sellsComparator(c.sells))]

\* parseOrderBook, the entry it pushes for an offer: the price written with
\* toFixed(6), the DDD value as amount and the CCC value as total.
BookEntry(offer, dddAmount, cccAmount) ==
    [price |-> DivToFixed6(cccAmount, dddAmount),
     amount |-> dddAmount,
     total |-> cccAmount,
     Account |-> offer.Account,
     Sequence |-> offer.Sequence]

\* parseOrderBook, the forEach over accountOffers: an offer with TakerGets
\* CCC and TakerPays DDD is pushed on asks, one with TakerGets DDD and
\* TakerPays CCC on bids.
AsksAndBids(offersToProcess) ==
    LET getsCurrency(o) == IF o.TakerGets.type = "string" THEN "XRP" ELSE o.TakerGets.currency
        paysCurrency(o) == IF o.TakerPays.type = "string" THEN "XRP" ELSE o.TakerPays.currency
        IsAsk(o) == getsCurrency(o) = "CCC" /\ paysCurrency(o) = "DDD"
        IsBid(o) == ~IsAsk(o) /\ getsCurrency(o) = "DDD" /\ paysCurrency(o) = "CCC"
        askOffers == SelectSeq(offersToProcess, IsAsk)
        bidOffers == SelectSeq(offersToProcess, IsBid)
    IN  [asks |-> [i \in 1..Len(askOffers) |->
                      BookEntry(askOffers[i], askOffers[i].TakerPays.value,
                                askOffers[i].TakerGets.value)],
         bids |-> [i \in 1..Len(bidOffers) |->
                      BookEntry(bidOffers[i], bidOffers[i].TakerGets.value,
                                bidOffers[i].TakerPays.value)]]

\* The comparators of asks.sort and bids.sort, on parseFloat(price): a - b < 0
\* for asks and b - a < 0 for bids, told for every two positions.
asksComparator(asks) ==
    [i \in 1..Len(asks) |-> [j \in 1..Len(asks) |-> DecLess(asks[i].price, asks[j].price)]]
bidsComparator(bids) ==
    [i \in 1..Len(bids) |-> [j \in 1..Len(bids) |-> DecLess(bids[j].price, bids[i].price)]]

\* parseOrderBook over accountOffers: the classification, then asks sorted
\* ascending and bids descending.
parseOrderBook(offersToProcess) ==
    LET c == AsksAndBids(offersToProcess)
    IN  [asks |-> StableSort(c.asks, asksComparator(c.asks)),
         bids |-> StableSort(c.bids, bidsComparator(c.bids))]

BookInit ==
    /\ VerifyIdle
    /\ task \in {"getOrderBook", "parseOrderBook"}
    /\ \E raw \in SeqsUpTo(RawOffers, MaxOffers), pr \in BookPairs, ok \in BOOLEAN :
          /\ task = "parseOrderBook" => pr = PlacePair /\ ok
          /\ input = [offers |-> Numbered(raw), pair |-> pr, ledgerOk |-> ok]
    /\ output = NoOutput
    /\ txs = <<>>

\* getOrderBook(client, pair): the book_offers request, the classification
\* and the two sorts; a throw gives an empty book.
CallGetOrderBook ==
    /\ task = "getOrderBook"
    /\ output = NoOutput
    /\ output' =
        IF input.ledgerOk
        THEN LET book == getOrderBook(input.offers, input.pair)
             IN  [bids |-> book.buys, asks |-> book.sells]
        ELSE [bids |-> <<>>, asks |-> <<>>]
    /\ UNCHANGED <<task, input, txs>>
    /\ UNCHANGED verifVars

\* parseOrderBook() of the PermissionedDEX component, on render.
CallParseOrderBook ==
    /\ task = "parseOrderBook"
    /\ output = NoOutput
    /\ output' =
        IF Len(input.offers) = 0
        THEN [bids |-> <<>>, asks |-> <<>>]
        ELSE parseOrderBook(input.offers)
    /\ UNCHANGED <<task, input, txs>>
    /\ UNCHANGED verifVars

BookNext == CallGetOrderBook \/ CallParseOrderBook

SpecBook == BookInit /\ [][BookNext]_vars

\* A book has been reconstructed from the offers of the input.
BookDone == task \in {"getOrderBook", "parseOrderBook"} /\ output # NoOutput /\ input.ledgerOk

\* Amount a is of the currency reference (currency, issuer); the native
\* currency is a bare string and has no issuer.
MatchesRef(a, currency, issuer) ==
    IF currency = "XRP"
    THEN a.type = "string"
    ELSE a.type = "object" /\ a.currency = currency /\ a.issuer = issuer

\* Section 4.4: an ask has takerGets of the quote and takerPays of the base,
\* a bid has takerGets of the base and takerPays of the quote.
ShouldBeAsk(o, pair) ==
    /\ MatchesRef(o.TakerGets, pair.quoteCurrency, pair.quoteIssuer)
    /\ MatchesRef(o.TakerPays, pair.baseCurrency, pair.baseIssuer)
ShouldBeBid(o, pair) ==
    /\ MatchesRef(o.TakerGets, pair.baseCurrency, pair.baseIssuer)
    /\ MatchesRef(o.TakerPays, pair.quoteCurrency, pair.quoteIssuer)

\* The offers (by Sequence) on one side of the output.
SideSequences(side) == {side[k].Sequence : k \in 1..Len(side)}

\* C4: an offer is among the asks exactly when it is an ask of the pair, among
\* the bids exactly when it is a bid of the pair, on neither side otherwise,
\* and never twice or on both sides.
C4_Classification ==
    BookDone =>
        /\ \A i \in 1..Len(input.offers) :
              /\ input.offers[i].Sequence \in SideSequences(output.asks)
                    <=> ShouldBeAsk(input.offers[i], input.pair)
              /\ input.offers[i].Sequence \in SideSequences(output.bids)
                    <=> ShouldBeBid(input.offers[i], input.pair)
        /\ SideSequences(output.asks) \cap SideSequences(output.bids) = {}
        /\ Cardinality(SideSequences(output.asks)) = Len(output.asks)
        /\ Cardinality(SideSequences(output.bids)) = Len(output.bids)

\* The value of the quote leg and of the base leg of an output order:
\* parseOrderBook carries them as total and amount, getOrderBook returns the
\* raw offer.
QuoteValue(e, side) ==
    IF task = "parseOrderBook" THEN e.total
    ELSE IF side = "asks" THEN getValue(e.TakerGets) ELSE getValue(e.TakerPays)
BaseValue(e, side) ==
    IF task = "parseOrderBook" THEN e.amount
    ELSE IF side = "asks" THEN getValue(e.TakerPays) ELSE getValue(e.TakerGets)

\* The price of e is below the price of f, price being quote value over base
\* value.
PriceLess(e, f, side) ==
    QuotLess(QuoteValue(e, side), BaseValue(e, side), QuoteValue(f, side), BaseValue(f, side))

\* The offer of the input an output order was made from.
SourceOffer(e) == input.offers[e.Sequence]

\* Asks are in non-decreasing and bids in non-increasing order of price.
OrderedByPrice ==
    /\ \A k \in 1..(Len(output.asks) - 1) :
          ~PriceLess(output.asks[k + 1], output.asks[k], "asks")
    /\ \A k \in 1..(Len(output.bids) - 1) :
          ~PriceLess(output.bids[k], output.bids[k + 1], "bids")

\* price is x / y written with six digits after the point: it lies within half
\* a millionth of the quotient.
PriceIs(price, x, y) ==
    LET num == x.m * 10^y.d
        den == y.m * 10^x.d
        diff == price.m * den - 1000000 * num
    IN  price.d = 6 /\ 2 * diff <= den /\ 2 * diff >= -den

\* C5: an order carries price = quote value / base value and amount = base
\* value (ask: takerGets / takerPays and takerPays; bid: takerPays / takerGets
\* and takerGets), the single offer {takerGets 10 QUOTE, takerPays 5 BASE}
\* gives one ask of price 2 and amount 5, and each side is ordered by that
\* price.
C5_PriceAndAmount ==
    BookDone =>
        /\ task = "parseOrderBook" =>
              /\ \A k \in 1..Len(output.asks) :
                    LET e == output.asks[k] o == SourceOffer(e)
                    IN  /\ PriceIs(e.price, getValue(o.TakerGets), getValue(o.TakerPays))
                        /\ NumEq(e.amount, getValue(o.TakerPays))
              /\ \A k \in 1..Len(output.bids) :
                    LET e == output.bids[k] o == SourceOffer(e)
                    IN  /\ PriceIs(e.price, getValue(o.TakerPays), getValue(o.TakerGets))
                        /\ NumEq(e.amount, getValue(o.TakerGets))
              /\ (Len(input.offers) = 1
                    /\ input.offers[1].TakerGets = TokenAmount("CCC", "rUser2", Dec(10, 0))
                    /\ input.offers[1].TakerPays = TokenAmount("DDD", "rUser2", Dec(5, 0)))
                 => /\ Len(output.asks) = 1
                    /\ output.bids = <<>>
                    /\ NumEq(output.asks[1].price, Dec(2, 0))
                    /\ NumEq(output.asks[1].amount, Dec(5, 0))
        /\ OrderedByPrice

\* C10: asks are in non-decreasing order of price, bids in non-increasing
\* order, and orders of equal price keep the order they had in the input.
C10_SortedBook ==
    BookDone =>
        /\ \A k \in 1..(Len(output.asks) - 1) :
              \/ PriceLess(output.asks[k], output.asks[k + 1], "asks")
              \/ /\ ~PriceLess(output.asks[k + 1], output.asks[k], "asks")
                 /\ output.asks[k].Sequence < output.asks[k + 1].Sequence
        /\ \A k \in 1..(Len(output.bids) - 1) :
              \/ PriceLess(output.bids[k + 1], output.bids[k], "bids")
              \/ /\ ~PriceLess(output.bids[k], output.bids[k + 1], "bids")
                 /\ output.bids[k].Sequence < output.bids[k + 1].Sequence

(***************************************************************************)
(* Issuer flags: setAccountFlags                                           *)
(***************************************************************************)

\* Largest account sequence number autofill reads from the ledger.
MaxSequence == 2

\* AccountSetTfFlags.tfRequireAuth, 0x00040000.
tfRequireAuth == 262144
\* AccountSetAsfFlags.asfDefaultRipple, asfGlobalFreeze, asfAllowTrustLineClawback.
asfDefaultRipple == 8
asfGlobalFreeze == 7
asfAllowTrustLineClawback == 16

FlagRequests == [requireAuth : BOOLEAN, freeze : BOOLEAN, clawback : BOOLEAN]
WalletAddresses == {"rIssuer", "rUser2"}

\* client.autofill: the payload with the account's current sequence number.
Autofill(tx, sequence) == [f \in DOMAIN tx \cup {"Sequence"} |->
                              IF f = "Sequence" THEN sequence ELSE tx[f]]

\* The variant that also adds asfGlobalFreeze into the Flags mask.
setAccountFlags_FreezeInMask(walletAddress, flags, sequence) ==
    LET tfFlagsMask == (IF flags.requireAuth THEN tfRequireAuth ELSE 0)
                       + (IF flags.freeze THEN asfGlobalFreeze ELSE 0)
        setFlags == <<asfDefaultRipple>>
                    \o (IF flags.freeze THEN <<asfGlobalFreeze>> ELSE <<>>)
                    \o (IF flags.clawback THEN <<asfAllowTrustLineClawback>> ELSE <<>>)
        masked == IF tfFlagsMask > 0
                  THEN <<Autofill([TransactionType |-> "AccountSet",
                                   Account |-> walletAddress,
                                   Flags |-> tfFlagsMask], sequence)>>
                  ELSE <<>>
        named == [k \in 1..Len(setFlags) |->
                     Autofill([TransactionType |-> "AccountSet",
                               Account |-> walletAddress,
                               SetFlag |-> setFlags[k]], sequence)]
    IN  masked \o named

\* The variant that pushes asfDefaultRipple only together with tfRequireAuth.
setAccountFlags_RipplingWithAuth(walletAddress, flags, sequence) ==
    LET tfFlagsMask == IF flags.requireAuth THEN tfRequireAuth ELSE 0
        setFlags == (IF flags.requireAuth THEN <<asfDefaultRipple>> ELSE <<>>)
                    \o (IF flags.freeze THEN <<asfGlobalFreeze>> ELSE <<>>)
                    \o (IF flags.clawback THEN <<asfAllowTrustLineClawback>> ELSE <<>>)
        masked == IF tfFlagsMask > 0
                  THEN <<Autofill([TransactionType |-> "AccountSet",
                                   Account |-> walletAddress,
                                   Flags |-> tfFlagsMask], sequence)>>
                  ELSE <<>>
        named == [k \in 1..Len(setFlags) |->
                     Autofill([TransactionType |-> "AccountSet",
                               Account |-> walletAddress,
                               SetFlag |-> setFlags[k]], sequence)]
    IN  masked \o named

\* setAccountFlags(client, walletAddress, flags): tfFlagsMask collects
\* tfRequireAuth, setFlags collects asfDefaultRipple and the requested
\* asfGlobalFreeze and asfAllowTrustLineClawback; one AccountSet with Flags
\* is prepared when tfFlagsMask > 0, then one AccountSet with SetFlag for
\* each element of setFlags.
setAccountFlags(walletAddress, flags, sequence) ==
    LET tfFlagsMask == IF flags.requireAuth THEN tfRequireAuth ELSE 0
        setFlags == <<asfDefaultRipple>>
                    \o (IF flags.freeze THEN <<asfGlobalFreeze>> ELSE <<>>)
                    \o (IF flags.clawback THEN <<asfAllowTrustLineClawback>> ELSE <<>>)
        masked == IF tfFlagsMask > 0
                  THEN <<Autofill([TransactionType |-> "AccountSet",
                                   Account |-> walletAddress,
                                   Flags |-> tfFlagsMask], sequence)>>
                  ELSE <<>>
        named == [k \in 1..Len(setFlags) |->
                     Autofill([TransactionType |-> "AccountSet",
                               Account |-> walletAddress,
                               SetFlag |-> setFlags[k]], sequence)]
    IN  masked \o named

\* enableRippling(client, walletAddress): one AccountSet with SetFlag
\* asfDefaultRipple, prepared by autofill.
enableRippling(walletAddress, sequence) ==
    Autofill([TransactionType |-> "AccountSet",
              Account |-> walletAddress,
              SetFlag |-> asfDefaultRipple], sequence)

FlagsInit ==
    /\ VerifyIdle
    /\ \/ /\ task = "setAccountFlags"
          /\ input \in [flags : FlagRequests, walletAddress : WalletAddresses,
                        sequence : 1..MaxSequence, ledgerOk : BOOLEAN]
       \/ /\ task = "enableRippling"
          /\ input \in [walletAddress : WalletAddresses,
                        sequence : 1..MaxSequence, ledgerOk : BOOLEAN]
    /\ output = NoOutput
    /\ txs = <<>>

\* A call of setAccountFlags: the prepared transactions are returned, or the
\* promise is rejected when autofill fails.
CallSetAccountFlags ==
    /\ task = "setAccountFlags"
    /\ output = NoOutput
    /\ IF input.ledgerOk
       THEN /\ txs' = setAccountFlags(input.walletAddress, input.flags, input.sequence)
            /\ output' = [returned |-> TRUE]
       ELSE /\ txs' = <<>>
            /\ output' = [returned |-> FALSE]
    /\ UNCHANGED <<task, input>>
    /\ UNCHANGED verifVars

\* A call of enableRippling: the prepared transaction is returned, or the
\* promise is rejected when autofill fails.
CallEnableRippling ==
    /\ task = "enableRippling"
    /\ output = NoOutput
    /\ IF input.ledgerOk
       THEN /\ txs' = <<enableRippling(input.walletAddress, input.sequence)>>
            /\ output' = [returned |-> TRUE]
       ELSE /\ txs' = <<>>
            /\ output' = [returned |-> FALSE]
    /\ UNCHANGED <<task, input>>
    /\ UNCHANGED verifVars

FlagsNext == CallSetAccountFlags \/ CallEnableRippling

SpecFlags == FlagsInit /\ [][FlagsNext]_vars

\* setAccountFlags has returned its payloads.
FlagsDone == task = "setAccountFlags" /\ output # NoOutput /\ output.returned

\* A bitmask payload carries Flags, a named-flag payload carries SetFlag.
IsBitmaskPayload(tx) == "Flags" \in DOMAIN tx
IsNamedPayload(tx) == "SetFlag" \in DOMAIN tx

\* The OR of the requested combinable flags.
CombinableMask(flags) == IF flags.requireAuth THEN tfRequireAuth ELSE 0
\* The named flags to set: rippling always, freeze and clawback on request.
NamedFlags(flags) ==
    {asfDefaultRipple}
    \cup (IF flags.freeze THEN {asfGlobalFreeze} ELSE {})
    \cup (IF flags.clawback THEN {asfAllowTrustLineClawback} ELSE {})

\* Positions of the bitmask payloads and of the payloads naming flag f.
BitmaskPositions == {k \in 1..Len(txs) : IsBitmaskPayload(txs[k])}
NamedPositions(f) == {k \in 1..Len(txs) : IsNamedPayload(txs[k]) /\ txs[k].SetFlag = f}

\* No payload mixes the two kinds, every bitmask payload carries exactly the
\* OR of the requested combinable flags, and every named flag to set has
\* exactly one payload of its own and no other flag is named.
PayloadsSeparate ==
    /\ \A k \in 1..Len(txs) : IsBitmaskPayload(txs[k]) # IsNamedPayload(txs[k])
    /\ \A k \in BitmaskPositions : txs[k].Flags = CombinableMask(input.flags)
    /\ \A k \in 1..Len(txs) :
          IsNamedPayload(txs[k]) => txs[k].SetFlag \in NamedFlags(input.flags)
    /\ \A f \in NamedFlags(input.flags) : Cardinality(NamedPositions(f)) = 1

\* C6: for every combination of requested flags no named flag is in the
\* bitmask payload and no payload names more than one flag; exactly one
\* payload carries the OR of the combinable flags and each named flag has one
\* payload of its own.
C6_OneBitmaskPayloadAlways ==
    FlagsDone =>
        /\ PayloadsSeparate
        /\ Cardinality(BitmaskPositions) = 1

\* C6 amended: as C6, except that the bitmask payload is emitted only when a
\* combinable flag is requested: one bitmask payload when requireAuth is
\* requested, none otherwise; {requireAuth, freeze} gives exactly one bitmask
\* payload holding the require-auth bit and exactly two named-flag payloads,
\* freeze and enable-rippling.
C6_FlagPayloads ==
    FlagsDone =>
        /\ PayloadsSeparate
        /\ Cardinality(BitmaskPositions) = (IF input.flags.requireAuth THEN 1 ELSE 0)
        /\ (input.flags = [requireAuth |-> TRUE, freeze |-> TRUE, clawback |-> FALSE])
              => /\ Len(txs) = 3
                 /\ txs[1].Flags = tfRequireAuth
                 /\ {txs[2].SetFlag, txs[3].SetFlag} = {asfGlobalFreeze, asfDefaultRipple}

\* C6 witness: setAccountFlags has returned for {requireAuth, freeze} with a
\* bitmask payload and two named-flag payloads.
C6_Witness ==
    /\ FlagsDone
    /\ input.flags = [requireAuth |-> TRUE, freeze |-> TRUE, clawback |-> FALSE]
    /\ Cardinality(BitmaskPositions) = 1
    /\ Len(txs) = 3

\* An issuer-flag builder, setAccountFlags or enableRippling, has returned.
BuilderDone == task \in {"setAccountFlags", "enableRippling"} /\ output # NoOutput
               /\ output.returned

\* C19: for every combination of requireAuth, freeze and clawback, all false
\* included, exactly one payload of the output sets asfDefaultRipple; it is a
\* named-flag payload with no Flags field, and no bitmask payload carries
\* anything but the combinable flags.
C19_RipplingAlwaysNamed ==
    BuilderDone =>
        /\ Cardinality(NamedPositions(asfDefaultRipple)) = 1
        /\ \A k \in NamedPositions(asfDefaultRipple) : ~IsBitmaskPayload(txs[k])
        /\ \A k \in BitmaskPositions :
              ~IsNamedPayload(txs[k]) /\ txs[k].Flags = tfRequireAuth

\* C19 witness: setAccountFlags has returned for no requested flag, and its
\* only payload names asfDefaultRipple.
C19_Witness ==
    /\ FlagsDone
    /\ input.flags = [requireAuth |-> FALSE, freeze |-> FALSE, clawback |-> FALSE]
    /\ Len(txs) = 1
    /\ txs[1].SetFlag = asfDefaultRipple

(***************************************************************************)
(* Zero quantities                                                         *)
(***************************************************************************)

\* The offer is of the pair and the quantity its price is divided by, the
\* value of its base leg, is zero.
ZeroDivisor(o, pair) ==
    \/ ShouldBeAsk(o, pair) /\ getValue(o.TakerPays).m = 0
    \/ ShouldBeBid(o, pair) /\ getValue(o.TakerGets).m = 0

\* C11: an offer whose divisor quantity is zero is on neither side of the
\* output, no output order has a price of Infinity or NaN, and the other
\* offers of the pair are still classified.
C11_ZeroDivisorSkipped ==
    BookDone =>
        /\ \A i \in 1..Len(input.offers) :
              ZeroDivisor(input.offers[i], input.pair)
              => input.offers[i].Sequence
                    \notin SideSequences(output.asks) \cup SideSequences(output.bids)
        /\ task = "parseOrderBook" =>
              /\ \A k \in 1..Len(output.asks) : IsFinite(output.asks[k].price)
              /\ \A k \in 1..Len(output.bids) : IsFinite(output.bids[k].price)
        /\ \A i \in 1..Len(input.offers) :
              (/\ ~ZeroDivisor(input.offers[i], input.pair)
               /\ ShouldBeAsk(input.offers[i], input.pair) \/ ShouldBeBid(input.offers[i], input.pair))
              => input.offers[i].Sequence
                    \in SideSequences(output.asks) \cup SideSequences(output.bids)

(***************************************************************************)
(* Cancellation and overlap of polls                                       *)
(***************************************************************************)

\* The polling loop is running: a status request is in flight or the loop
\* sleeps.
Polling == pc \in {"reading", "sleeping"}

\* C12: once the cancellation signal is raised while the polling loop runs,
\* no further status request is sent and the loop settles only as Cancelled,
\* a terminal state that is neither TimedOut nor Failed (a request in flight
\* that fails in transport aside).
C12_Cancellation ==
    [][(cancelled /\ Polling)
        => /\ pollsSent' = pollsSent
           /\ (pc' \in {"returned", "threw"} /\ thrown' \notin {"HTTP", "Verifier status error"}
                  => outcome' = "Cancelled")]_vars

\* Status requests in flight, and sessions whose polling loop runs, over the
\* mounted instance of the flow and the unmounted one.
PollsInFlight ==
    (IF pc = "reading" THEN 1 ELSE 0) + (IF orphan.pc = "reading" THEN 1 ELSE 0)
SessionsPolled ==
    (IF Polling THEN 1 ELSE 0) + (IF orphan.pc \in {"reading", "sleeping"} THEN 1 ELSE 0)

\* C13: at most one status request is in flight and at most one session is
\* being polled, whatever the interleaving of mounts, unmounts and step
\* changes.
C13_SinglePollInFlight ==
    /\ PollsInFlight <= 1
    /\ SessionsPolled <= 1

(***************************************************************************)
(* Order payloads: native legs and the domain identifier                   *)
(***************************************************************************)

\* A payload has been built by one of the three order builders.
PayloadBuilt ==
    /\ task \in {"createDEXOrder", "handlePlaceOrder", "permissioned-dex.createDEXOrder"}
    /\ output # NoOutput
    /\ output.built

\* The currencies of the two legs the caller asked for.
RequestedCurrencies ==
    IF task = "permissioned-dex.createDEXOrder"
    THEN <<input.takerGets.leg.currency, input.takerPays.leg.currency>>
    ELSE IF input.side = "buy"
    THEN <<input.pair.baseCurrency, input.pair.quoteCurrency>>
    ELSE <<input.pair.quoteCurrency, input.pair.baseCurrency>>

\* The amount is a bare string exactly when its currency is the native one,
\* and is otherwise a structured amount of that currency.
NativeAware(a, currency) ==
    IF currency = "XRP"
    THEN a.type = "string"
    ELSE a.type = "object" /\ a.currency = currency

\* C14: in every order payload a native leg is a bare scalar string and an
\* issued-token leg is a structured amount, on both legs and for both sides.
C14_NativeLegScalar ==
    PayloadBuilt =>
        /\ NativeAware(output.transaction.TakerGets, RequestedCurrencies[1])
        /\ NativeAware(output.transaction.TakerPays, RequestedCurrencies[2])

\* C15: the payload's DomainID is exactly the identifier of the domain the
\* caller supplied (the domain the user selected), never another or a fixed
\* one.
C15_DomainVerbatim ==
    PayloadBuilt => output.transaction.DomainID = input.domainId

(***************************************************************************)
(* Currency codes: convertStringToHexPadded, createTrustLine, issueTokens  *)
(* A string is the sequence of its char codes (charCodeAt).                *)
(***************************************************************************)

\* Longest code over the whole alphabet, and longest code of one repeated
\* character.
MaxShort == 4
MaxCodeLen == 21

\* padEnd(40, '0').
HexWidth == 40

\* Char codes: tab, 'D', 'P', 'R', 'X', 'z' and the euro sign.
Chars == {9, 68, 80, 82, 88, 122, 8364}

XRP == <<88, 82, 80>>

CurrencyCodes ==
    SeqsUpTo(Chars \ {68}, MaxShort)
    \cup {[i \in 1..n |-> c] : c \in {68, 122}, n \in (MaxShort + 1)..MaxCodeLen}

\* The character of a hexadecimal digit, lower case: '0'..'9', 'a'..'f'.
DigitChar(d) == IF d < 10 THEN 48 + d ELSE 87 + d

RECURSIVE ToString16(_)
\* Number.prototype.toString(16): no leading zero, lower case.
ToString16(n) ==
    IF n < 16 THEN <<DigitChar(n)>>
    ELSE ToString16(n \div 16) \o <<DigitChar(n % 16)>>

\* String.prototype.padEnd(n, c): never shortens.
padEnd(str, n, c) ==
    IF Len(str) >= n THEN str ELSE str \o [i \in 1..(n - Len(str)) |-> c]

\* String.prototype.toUpperCase, on the letters 'a'..'z'.
toUpperCase(str) ==
    [i \in 1..Len(str) |-> IF str[i] >= 97 /\ str[i] <= 122 THEN str[i] - 32 ELSE str[i]]

RECURSIVE HexOfChars(_)
\* The loop of convertStringToHexPadded: hex += str.charCodeAt(i).toString(16).
HexOfChars(str) ==
    IF str = <<>> THEN <<>>
    ELSE ToString16(Head(str)) \o HexOfChars(Tail(str))

convertStringToHexPadded(str) == toUpperCase(padEnd(HexOfChars(str), HexWidth, 48))

\* The variant that also converts the codes of three characters.
CurrencyOf_HexFromThree(currencyCode) ==
    IF Len(currencyCode) >= 3 THEN convertStringToHexPadded(currencyCode) ELSE currencyCode

\* const currency = currencyCode.length > 3
\*     ? convertStringToHexPadded(currencyCode) : currencyCode;
CurrencyOf(currencyCode) ==
    IF Len(currencyCode) > 3 THEN convertStringToHexPadded(currencyCode) ELSE currencyCode

\* TrustSetFlags.tfClearNoRipple.
tfClearNoRipple == 262144

\* createTrustLine, the TrustSet it builds (limitAmount = '500000000' by
\* default).
TrustSetOf(receiverAddress, issuerAddress, currencyCode, limitAmount) ==
    [TransactionType |-> "TrustSet",
     Account |-> receiverAddress,
     LimitAmount |-> [currency |-> CurrencyOf(currencyCode),
                      issuer |-> issuerAddress,
                      value |-> limitAmount],
     Flags |-> tfClearNoRipple]

\* issueTokens, the Payment it builds.
PaymentOf(issuerAddress, receiverAddress, currencyCode, amount) ==
    [TransactionType |-> "Payment",
     Account |-> issuerAddress,
     Destination |-> receiverAddress,
     Amount |-> [currency |-> CurrencyOf(currencyCode),
                 issuer |-> issuerAddress,
                 value |-> amount]]

CodecInit ==
    /\ VerifyIdle
    /\ task \in {"createTrustLine", "issueTokens"}
    /\ input \in [currencyCode : CurrencyCodes, ledgerOk : BOOLEAN]
    /\ output = NoOutput
    /\ txs = <<>>

\* createTrustLine(client, receiverAddress, issuerAddress, currencyCode):
\* the autofilled TrustSet, or a rejected promise when autofill fails.
CallCreateTrustLine ==
    /\ task = "createTrustLine"
    /\ output = NoOutput
    /\ output' =
        IF input.ledgerOk
        THEN [returned |-> TRUE,
              transaction |-> TrustSetOf("rUser2", "rIssuer", input.currencyCode,
                                         Dec(500000000, 0)),
              currency |-> CurrencyOf(input.currencyCode)]
        ELSE [returned |-> FALSE, transaction |-> NoTransaction, currency |-> <<>>]
    /\ UNCHANGED <<task, input, txs>>
    /\ UNCHANGED verifVars

\* issueTokens(client, issuerAddress, receiverAddress, currencyCode, amount).
CallIssueTokens ==
    /\ task = "issueTokens"
    /\ output = NoOutput
    /\ output' =
        IF input.ledgerOk
        THEN [returned |-> TRUE,
              transaction |-> PaymentOf("rIssuer", "rUser2", input.currencyCode,
                                        Dec(100, 0)),
              currency |-> CurrencyOf(input.currencyCode)]
        ELSE [returned |-> FALSE, transaction |-> NoTransaction, currency |-> <<>>]
    /\ UNCHANGED <<task, input, txs>>
    /\ UNCHANGED verifVars

CodecNext == CallCreateTrustLine \/ CallIssueTokens

SpecCodec == CodecInit /\ [][CodecNext]_vars

\* A builder has returned a payload for the code of the input.
Encoded == task \in {"createTrustLine", "issueTokens"} /\ output # NoOutput /\ output.returned

\* The currency field of the payload.
PayloadCurrency ==
    IF task = "createTrustLine" THEN output.transaction.LimitAmount.currency
    ELSE output.transaction.Amount.currency

\* c is an upper-case hexadecimal digit: '0'..'9' or 'A'..'F'.
IsUpperHex(c) == (c >= 48 /\ c <= 57) \/ (c >= 65 /\ c <= 70)

\* The character of a hexadecimal digit, upper case.
UpperDigitChar(d) == IF d < 10 THEN 48 + d ELSE 55 + d

\* Position k of the identifier shows byte b = str[(k + 1) \div 2]: its high
\* digit at odd k, its low digit at even k.
ShowsBytes(identifier, str) ==
    \A k \in 1..(2 * Len(str)) :
        /\ k <= Len(identifier)
        /\ str[(k + 1) \div 2] <= 255
        /\ identifier[k] = UpperDigitChar(IF k % 2 = 1
                                          THEN str[(k + 1) \div 2] \div 16
                                          ELSE str[(k + 1) \div 2] % 16)

\* C16: for a code longer than 3 characters the identifier is exactly 40
\* characters wide, upper-case hexadecimal, and made of two digits for each
\* input byte, in input order, followed by zeros only.
C16_HexPaddedWidth ==
    (Encoded /\ Len(input.currencyCode) > 3) =>
        /\ Len(PayloadCurrency) = HexWidth
        /\ \A k \in 1..Len(PayloadCurrency) : IsUpperHex(PayloadCurrency[k])
        /\ ShowsBytes(PayloadCurrency, input.currencyCode)
        /\ \A k \in (2 * Len(input.currencyCode) + 1)..Len(PayloadCurrency) :
              PayloadCurrency[k] = 48

\* The value of an upper-case hexadecimal digit.
HexValue(c) == IF c <= 57 THEN c - 48 ELSE c - 55

RECURSIVE StripZeroBytes(_)
\* The bytes without their trailing zero padding.
StripZeroBytes(bytes) ==
    IF bytes # <<>> /\ bytes[Len(bytes)] = 0
    THEN StripZeroBytes(SubSeq(bytes, 1, Len(bytes) - 1))
    ELSE bytes

\* decode of section 4.1: a padded hexadecimal identifier is read two digits
\* a byte, its trailing zero padding stripped; a short code is itself.
decode(identifier) ==
    IF Len(identifier) = HexWidth
    THEN StripZeroBytes([k \in 1..(HexWidth \div 2) |->
                            16 * HexValue(identifier[2 * k - 1]) + HexValue(identifier[2 * k])])
    ELSE identifier

\* C17: a code of at most 3 characters is left unchanged by the builders,
\* decoding what they emit gives the code back, and the native code XRP is
\* emitted as it is, never hex-encoded.
C17_ShortCodeUnchanged ==
    (Encoded /\ Len(input.currencyCode) <= 3) =>
        /\ PayloadCurrency = input.currencyCode
        /\ output.currency = input.currencyCode
        /\ decode(PayloadCurrency) = input.currencyCode

\* C17 witness: a builder has returned a payload for the native code XRP and
\* its currency field is XRP.
C17_Witness ==
    /\ Encoded
    /\ input.currencyCode = XRP
    /\ PayloadCurrency = XRP

(***************************************************************************)
(* Order of the input: the reconstruction run on a list of offers and on   *)
(* a permutation of it                                                     *)
(***************************************************************************)

MaxShuffled == 3

\* Offers of the pair DDD/CCC, in both directions, those with two zero
\* quantities included.
PairOffers ==
    {o \in RawOffers :
        /\ o.TakerGets.type = "object" /\ o.TakerGets.issuer = "rUser2"
        /\ o.TakerPays.type = "object" /\ o.TakerPays.issuer = "rUser2"}
    \cup
    { [TakerGets |-> TokenAmount(legs[1], "rUser2", Dec(0, 0)),
       TakerPays |-> TokenAmount(legs[2], "rUser2", Dec(0, 0))] :
          legs \in {<<"DDD", "CCC">>, <<"CCC", "DDD">>} }

\* The permutations of 1..n.
Perms(n) == {f \in [1..n -> 1..n] : \A i, j \in 1..n : f[i] = f[j] => i = j}

\* The offers in the order perm puts them, each with its own Sequence.
Shuffled(offers, perm) == [i \in 1..Len(offers) |-> offers[perm[i]]]

\* A comparator is consistent when its "before" and its "neither before nor
\* after" are both transitive.
Consistent(less) ==
    LET n == Len(less)
        tie(i, j) == ~less[i][j] /\ ~less[j][i]
    IN  \A i, j, k \in 1..n :
           /\ less[i][j] /\ less[j][k] => less[i][k]
           /\ tie(i, j) /\ tie(j, k) => tie(i, k)

\* What Array.prototype.sort can leave in the array: the stable sort for a
\* consistent comparator, an order left to the engine for any other.
SortOutcomes(s, less) ==
    IF Consistent(less)
    THEN {StableSort(s, less)}
    ELSE {Shuffled(s, p) : p \in Perms(Len(s))}

\* What getOrderBook can return for a reply.
getOrderBookOutcomes(offers, pair) ==
    LET c == BuysAndSells(offers, pair)
    IN  {[bids |-> b, asks |-> a] :
            b \in SortOutcomes(c.buys, buysComparator(c.buys)),
            a \in SortOutcomes(c.sells, sellsComparator(c.sells))}

\* What parseOrderBook can return for accountOffers.
parseOrderBookOutcomes(offersToProcess) ==
    LET c == AsksAndBids(offersToProcess)
    IN  {[bids |-> b, asks |-> a] :
            b \in SortOutcomes(c.bids, bidsComparator(c.bids)),
            a \in SortOutcomes(c.asks, asksComparator(c.asks))}

ShuffleInit ==
    /\ VerifyIdle
    /\ task \in {"getOrderBook twice", "parseOrderBook twice"}
    /\ \E raw \in SeqsUpTo(PairOffers, MaxShuffled) :
          \E perm \in Perms(Len(raw)) :
              input = [offers |-> Numbered(raw), perm |-> perm, pair |-> PlacePair]
    /\ output = NoOutput
    /\ txs = <<>>

\* getOrderBook called for a reply and called again for the same offers in
\* another order.
ShuffleGetOrderBook ==
    /\ task = "getOrderBook twice"
    /\ output = NoOutput
    /\ \E one \in getOrderBookOutcomes(input.offers, input.pair),
          two \in getOrderBookOutcomes(Shuffled(input.offers, input.perm), input.pair) :
          output' = [first |-> one, second |-> two]
    /\ UNCHANGED <<task, input, txs>>
    /\ UNCHANGED verifVars

\* parseOrderBook rendered for accountOffers and rendered again for the same
\* offers in another order.
ShuffleParseOrderBook ==
    /\ task = "parseOrderBook twice"
    /\ output = NoOutput
    /\ IF Len(input.offers) = 0
       THEN output' = [first |-> [bids |-> <<>>, asks |-> <<>>],
                       second |-> [bids |-> <<>>, asks |-> <<>>]]
       ELSE \E one \in parseOrderBookOutcomes(input.offers),
               two \in parseOrderBookOutcomes(Shuffled(input.offers, input.perm)) :
               output' = [first |-> one, second |-> two]
    /\ UNCHANGED <<task, input, txs>>
    /\ UNCHANGED verifVars

ShuffleNext == ShuffleGetOrderBook \/ ShuffleParseOrderBook

SpecShuffle == ShuffleInit /\ [][ShuffleNext]_vars

\* Both reconstructions have been made.
ShuffleDone == task \in {"getOrderBook twice", "parseOrderBook twice"} /\ output # NoOutput

\* The set of the orders of a side.
SideSet(side) == {side[k] : k \in 1..Len(side)}

\* The position of the order made from offer number n on a side.
PositionOf(n, side) == CHOOSE k \in 1..Len(side) : side[k].Sequence = n

\* The price of offer number n of the input is below the price of offer
\* number m, price being quote value over base value (CCC over DDD).
OfferPriceLess(n, m) ==
    LET ccc(o) == IF o.TakerGets.currency = "CCC" THEN getValue(o.TakerGets)
                  ELSE getValue(o.TakerPays)
        ddd(o) == IF o.TakerGets.currency = "DDD" THEN getValue(o.TakerGets)
                  ELSE getValue(o.TakerPays)
    IN  QuotLess(ccc(input.offers[n]), ddd(input.offers[n]),
                 ccc(input.offers[m]), ddd(input.offers[m]))

\* Two sides hold the same orders, and two orders of different price stand in
\* the same relative order on both.
SameUpToTies(sideA, sideB) ==
    /\ SideSet(sideA) = SideSet(sideB)
    /\ Len(sideA) = Len(sideB)
    /\ \A n, m \in SideSequences(sideA) :
          (OfferPriceLess(n, m) \/ OfferPriceLess(m, n))
          => (PositionOf(n, sideA) < PositionOf(m, sideA)
                <=> PositionOf(n, sideB) < PositionOf(m, sideB))

\* C18: for every permutation of the same offers the set of bids and the set
\* of asks are the same, and the two outputs differ at most in the relative
\* order of orders of equal price.
C18_OrderIndependent ==
    ShuffleDone =>
        /\ SameUpToTies(output.first.asks, output.second.asks)
        /\ SameUpToTies(output.first.bids, output.second.bids)

(***************************************************************************)
(* Domain policy: createPermissionedDomain and the PermissionedDomainSet   *)
(* transactions of the backend script                                      *)
(***************************************************************************)

\* Largest number of PermissionedDomainSet transactions submitted after the
\* first one.
MaxUpdates == 2

\* AcceptedCredentials entries, { Credential: { Issuer, CredentialType } }.
AcceptedEntries == {[Credential |-> c] : c \in TierCriteria}

\* The lists a caller supplies as config.acceptedCredentials.
PolicyLists == SeqsUpTo(AcceptedEntries, MaxCriteria)

\* createPermissionedDomain(client, creatorAddress, config): a
\* PermissionedDomainSet with TransactionType and Account, AcceptedCredentials
\* added when the list is not empty, prepared by autofill.
createPermissionedDomain(creatorAddress, config, sequence) ==
    Autofill(IF Len(config.acceptedCredentials) > 0
             THEN [TransactionType |-> "PermissionedDomainSet",
                   Account |-> creatorAddress,
                   AcceptedCredentials |-> config.acceptedCredentials]
             ELSE [TransactionType |-> "PermissionedDomainSet",
                   Account |-> creatorAddress],
             sequence)

\* privateBankingCreateTx and privateBankingModifyTx of the backend script.
privateBankingCreateTx(address, sequence) ==
    Autofill([TransactionType |-> "PermissionedDomainSet",
              Account |-> address,
              AcceptedCredentials |->
                  <<[Credential |-> [Issuer |-> "isabel", CredentialType |-> "KYC"]]>>],
             sequence)
privateBankingModifyTx(address, privateBankingId, sequence) ==
    Autofill([TransactionType |-> "PermissionedDomainSet",
              Account |-> address,
              DomainID |-> privateBankingId,
              AcceptedCredentials |->
                  <<[Credential |-> [Issuer |-> "isabel", CredentialType |-> "KYC"]],
                    [Credential |-> [Issuer |-> "isabel", CredentialType |-> "AML"]]>>],
             sequence)

\* The owner's permissioned_domain objects after the ledger has taken a
\* PermissionedDomainSet, a domain's index being its position: a transaction
\* without DomainID creates a domain, one with DomainID replaces the
\* AcceptedCredentials of that domain. A transaction that carries no
\* AcceptedCredentials is refused or creates a domain with none.
LedgerOutcomes(domains, tx) ==
    IF "DomainID" \in DOMAIN tx
    THEN {[k \in 1..Len(domains) |->
             IF k = tx.DomainID
             THEN [domains[k] EXCEPT !.AcceptedCredentials = tx.AcceptedCredentials]
             ELSE domains[k]]}
    ELSE IF "AcceptedCredentials" \in DOMAIN tx
    THEN {Append(domains, [Owner |-> tx.Account, Sequence |-> tx.Sequence,
                           AcceptedCredentials |-> tx.AcceptedCredentials])}
    ELSE {domains,
          Append(domains, [Owner |-> tx.Account, Sequence |-> tx.Sequence,
                           AcceptedCredentials |-> <<>>])}

\* No transaction submitted yet: no domain, no list supplied.
DomainInit ==
    /\ VerifyIdle
    /\ task = "SetDomainPolicy"
    /\ input \in [creatorAddress : WalletAddresses]
    /\ output = [domains |-> <<>>, supplied |-> <<>>, known |-> 0, target |-> 0,
                 updated |-> FALSE, success |-> FALSE, privateBankingId |-> 0]
    /\ txs = <<>>

\* The owner sets a domain's policy with createPermissionedDomain and submits
\* the prepared transaction, to create a domain or to update the policy of
\* one they have; the function takes no domain. When autofill throws, the
\* function returns success: false and nothing is submitted.
SetDomainPolicy ==
    /\ task = "SetDomainPolicy"
    /\ Len(txs) <= MaxUpdates
    /\ \E list \in PolicyLists, intent \in {"create", "update"}, ledgerOk \in BOOLEAN :
          IF ledgerOk
          THEN LET tx == createPermissionedDomain(input.creatorAddress,
                                                  [acceptedCredentials |-> list],
                                                  Len(txs) + 1)
               IN  /\ txs' = Append(txs, tx)
                   /\ \E after \in LedgerOutcomes(output.domains, tx) :
                         output' = [output EXCEPT
                                       !.domains = after,
                                       !.supplied = list,
                                       !.known = Len(output.domains),
                                       !.target = 0,
                                       !.updated = (intent = "update"
                                                    /\ Len(output.domains) > 0),
                                       !.success = TRUE]
          ELSE /\ txs' = txs
               /\ output' = [output EXCEPT !.success = FALSE, !.updated = FALSE]
    /\ UNCHANGED <<task, input>>
    /\ UNCHANGED verifVars

\* main, step 2: privateBankingCreateTx is submitted and getDomainId looks
\* the new domain up by its Sequence; without an id the script ends.
MainCreatePrivateBanking ==
    /\ task = "SetDomainPolicy"
    /\ Len(txs) <= MaxUpdates
    /\ output.privateBankingId = 0
    /\ LET tx == privateBankingCreateTx(input.creatorAddress, Len(txs) + 1)
       IN  /\ txs' = Append(txs, tx)
           /\ \E after \in LedgerOutcomes(output.domains, tx), found \in BOOLEAN :
                 output' = [output EXCEPT
                               !.domains = after,
                               !.supplied = tx.AcceptedCredentials,
                               !.known = Len(output.domains),
                               !.target = 0,
                               !.updated = FALSE,
                               !.success = TRUE,
                               !.privateBankingId = IF found THEN Len(after) ELSE 0]
    /\ UNCHANGED <<task, input>>
    /\ UNCHANGED verifVars

\* main, step 4: privateBankingModifyTx, with DomainID privateBankingId, is
\* submitted.
MainModifyPrivateBanking ==
    /\ task = "SetDomainPolicy"
    /\ Len(txs) <= MaxUpdates
    /\ output.privateBankingId # 0
    /\ LET tx == privateBankingModifyTx(input.creatorAddress, output.privateBankingId,
                                        Len(txs) + 1)
       IN  /\ txs' = Append(txs, tx)
           /\ \E after \in LedgerOutcomes(output.domains, tx) :
                 output' = [output EXCEPT
                               !.domains = after,
                               !.supplied = tx.AcceptedCredentials,
                               !.known = Len(output.domains),
                               !.target = output.privateBankingId,
                               !.updated = TRUE,
                               !.success = TRUE,
                               !.privateBankingId = 0]
    /\ UNCHANGED <<task, input>>
    /\ UNCHANGED verifVars

DomainNext == SetDomainPolicy \/ MainCreatePrivateBanking \/ MainModifyPrivateBanking

SpecDomain == DomainInit /\ [][DomainNext]_vars

\* The last transaction submitted was an update of the policy of a domain
\* the owner already had.
PolicyUpdated == task = "SetDomainPolicy" /\ output.updated /\ output.success

\* The pairs of a list of AcceptedCredentials.
AcceptedPairs(list) == {list[k].Credential : k \in 1..Len(list)}

\* C20: after an update by the owner no domain has been added, and the
\* accepted-credential set of the domain updated is exactly the list
\* supplied in that update, the empty list included.
C20_FullReplacement ==
    PolicyUpdated =>
        /\ Len(output.domains) = output.known
        /\ IF output.target # 0
           THEN AcceptedPairs(output.domains[output.target].AcceptedCredentials)
                   = AcceptedPairs(output.supplied)
           ELSE \E k \in 1..output.known :
                   AcceptedPairs(output.domains[k].AcceptedCredentials)
                       = AcceptedPairs(output.supplied)

(***************************************************************************)
(* Submission: signAndSubmitTransaction and signAndSubmitTransactions, in  *)
(* the two versions of the transaction signer                              *)
(***************************************************************************)

\* Largest number of transactions in a batch.
MaxBatch == 2

\* A field a JavaScript object does not have.
Undefined == "undefined"

BatchTypes == {"TrustSet", "Payment"}

\* The last-ledger bound autofill derives from the current ledger index.
LastLedgerOf(ledger) == ledger + 20

\* A transaction as a builder returns it, stamped by autofill with the
\* account sequence and the ledger index of the time of preparation.
PreparedTx(type, sequence, ledger) ==
    [TransactionType |-> type, Account |-> "rIssuer",
     Sequence |-> sequence, LastLedgerSequence |-> LastLedgerOf(ledger)]

\* A transaction no autofill has stamped yet.
UnpreparedTx(type) == [TransactionType |-> type, Account |-> "rIssuer"]

\* client.autofill(transaction) of xrpl.js: Sequence and LastLedgerSequence
\* are filled from the ledger where the transaction does not carry them; a
\* field already present is kept.
Reautofill(transaction, sequence, ledger) ==
    [TransactionType |-> transaction.TransactionType,
     Account |-> transaction.Account,
     Sequence |-> IF "Sequence" \in DOMAIN transaction
                  THEN transaction.Sequence ELSE sequence,
     LastLedgerSequence |-> IF "LastLedgerSequence" \in DOMAIN transaction
                            THEN transaction.LastLedgerSequence
                            ELSE LastLedgerOf(ledger)]

\* What submitAndWait can give for a transaction stamped with the account's
\* current sequence: a throw, or a response with or without hash, with or
\* without meta.TransactionResult and engine_result, the two codes equal
\* when both are there.
ResultCodes == {"tesSUCCESS", "tecUNFUNDED_PAYMENT"}
CurrentReplies ==
    {[thrown |-> TRUE, hash |-> Undefined, TransactionResult |-> Undefined,
      engine_result |-> Undefined]}
    \cup
    {r \in [thrown : {FALSE}, hash : {Undefined, "HASH"},
            TransactionResult : ResultCodes \cup {Undefined},
            engine_result : ResultCodes \cup {Undefined}] :
        (r.TransactionResult # Undefined /\ r.engine_result # Undefined)
            => r.TransactionResult = r.engine_result}

\* What submitAndWait can give for a transaction whose sequence is not the
\* account's current one: a throw or the code tefPAST_SEQ.
StaleReplies ==
    {[thrown |-> TRUE, hash |-> Undefined, TransactionResult |-> Undefined,
      engine_result |-> Undefined],
     [thrown |-> FALSE, hash |-> "HASH", TransactionResult |-> Undefined,
      engine_result |-> "tefPAST_SEQ"],
     [thrown |-> FALSE, hash |-> "HASH", TransactionResult |-> "tefPAST_SEQ",
      engine_result |-> Undefined]}

\* The result code of a response: meta.TransactionResult of the validated
\* transaction, else engine_result, else none.
CodeOf(reply) ==
    IF reply.TransactionResult # Undefined THEN reply.TransactionResult
    ELSE reply.engine_result

\* The return value of signAndSubmitTransaction: success, hash and error,
\* the error being a prefix and the text that follows it.
NoError == <<Undefined, Undefined>>
Thrown == [success |-> FALSE, hash |-> Undefined, error |-> <<"", "submitAndWait threw">>]

\* signAndSubmitTransaction of part_006, after the response: success when
\* meta.TransactionResult or engine_result is tesSUCCESS, or when there is a
\* hash and neither code; else "Transaction failed: " with the first code
\* present, or "Unknown error".
resultOfPart006(reply) ==
    LET transactionResult == reply.TransactionResult
        engineResult == reply.engine_result
        isSuccess == \/ transactionResult = "tesSUCCESS"
                     \/ engineResult = "tesSUCCESS"
                     \/ (reply.hash # Undefined /\ transactionResult = Undefined
                         /\ engineResult = Undefined)
        errorMsg == IF transactionResult # Undefined THEN transactionResult
                    ELSE IF engineResult # Undefined THEN engineResult
                    ELSE "Unknown error"
    IN  IF reply.thrown THEN Thrown
        ELSE IF isSuccess
        THEN [success |-> TRUE, hash |-> reply.hash, error |-> NoError]
        ELSE [success |-> FALSE, hash |-> Undefined,
              error |-> <<"Transaction failed: ", errorMsg>>]

\* signAndSubmitTransaction of services/transaction-signer.ts, after the
\* response: success when engine_result is tesSUCCESS, else "Transaction
\* failed: " with engine_result as the template literal prints it.
resultOfSigner(reply) ==
    LET engineResult == reply.engine_result
    IN  IF reply.thrown THEN Thrown
        ELSE IF engineResult = "tesSUCCESS"
        THEN [success |-> TRUE, hash |-> reply.hash, error |-> NoError]
        ELSE [success |-> FALSE, hash |-> Undefined,
              error |-> <<"Transaction failed: ", engineResult>>]

\* The batches handed to signAndSubmitTransactions: prepared together, every
\* transaction stamped with the same sequence and ledger, or not prepared.
Batches(sequence, ledger) ==
    UNION {[1..n -> {PreparedTx(t, sequence, ledger) : t \in BatchTypes}] : n \in 1..MaxBatch}
    \cup UNION {[1..n -> {UnpreparedTx(t) : t \in BatchTypes}] : n \in 1..MaxBatch}

\* Before the loop: the account and the ledger as they were when the batch
\* was prepared, nothing signed, no hashes and no errors.
SubmitInit ==
    /\ VerifyIdle
    /\ task \in {"part_006.signAndSubmitTransactions",
                 "transaction-signer.signAndSubmitTransactions"}
    /\ \E sequence \in 1..MaxSequence :
          /\ input \in [transactions : Batches(sequence, 1)]
          /\ output = [i |-> 1, accountSequence |-> sequence, ledger |-> 1,
                       results |-> <<>>, replies |-> <<>>, stamps |-> <<>>,
                       hashes |-> <<>>, errors |-> <<>>, returned |-> FALSE]
    /\ txs = <<>>

\* The ledger after submitAndWait has given reply for tx: a ledger has been
\* validated, and the account's sequence has moved when the transaction was
\* applied.
AfterSubmit(out, tx, reply) ==
    [out EXCEPT
        !.ledger = out.ledger + 1,
        !.accountSequence =
            IF tx.Sequence = out.accountSequence /\ ~reply.thrown
            THEN out.accountSequence + 1 ELSE out.accountSequence,
        !.stamps = Append(out.stamps, [Sequence |-> out.accountSequence,
                                       ledger |-> out.ledger]),
        !.replies = Append(out.replies, reply)]

\* The body of the for loop of signAndSubmitTransactions: the hash is pushed
\* on hashes when the result is a success with a hash, else the error, or
\* "Unknown error", on errors.
AfterResult(out, result) ==
    [out EXCEPT
        !.i = out.i + 1,
        !.results = Append(out.results, result),
        !.hashes = IF result.success /\ result.hash # Undefined
                   THEN Append(out.hashes, result.hash) ELSE out.hashes,
        !.errors = IF result.success /\ result.hash # Undefined
                   THEN out.errors
                   ELSE Append(out.errors,
                               IF result.error # NoError THEN result.error
                               ELSE <<"", "Unknown error">>)]

\* One turn of the loop in part_006: the transaction is autofilled again,
\* signed and submitted, and the response is turned into a result.
SubmitNextPart006 ==
    /\ task = "part_006.signAndSubmitTransactions"
    /\ ~output.returned
    /\ output.i <= Len(input.transactions)
    /\ LET prepared == Reautofill(input.transactions[output.i],
                                  output.accountSequence, output.ledger)
       IN  /\ txs' = Append(txs, prepared)
           /\ \E reply \in (IF prepared.Sequence = output.accountSequence
                            THEN CurrentReplies ELSE StaleReplies) :
                 output' = AfterResult(AfterSubmit(output, prepared, reply),
                                       resultOfPart006(reply))
    /\ UNCHANGED <<task, input>>
    /\ UNCHANGED verifVars

\* One turn of the loop in services/transaction-signer.ts: the transaction is
\* signed as it was handed over and submitted; an unprepared transaction
\* makes wallet.sign throw.
SubmitNextSigner ==
    /\ task = "transaction-signer.signAndSubmitTransactions"
    /\ ~output.returned
    /\ output.i <= Len(input.transactions)
    /\ LET transaction == input.transactions[output.i]
       IN  IF "Sequence" \notin DOMAIN transaction
           THEN /\ txs' = txs
                /\ output' = AfterResult(output,
                                [success |-> FALSE, hash |-> Undefined,
                                 error |-> <<"", "wallet.sign threw">>])
           ELSE /\ txs' = Append(txs, transaction)
                /\ \E reply \in (IF transaction.Sequence = output.accountSequence
                                 THEN CurrentReplies ELSE StaleReplies) :
                      output' = AfterResult(AfterSubmit(output, transaction, reply),
                                            resultOfSigner(reply))
    /\ UNCHANGED <<task, input>>
    /\ UNCHANGED verifVars

\* After the loop: success when errors is empty.
ReturnBatch ==
    /\ task \in {"part_006.signAndSubmitTransactions",
                 "transaction-signer.signAndSubmitTransactions"}
    /\ ~output.returned
    /\ output.i > Len(input.transactions)
    /\ output' = [output EXCEPT !.returned = TRUE]
    /\ UNCHANGED <<task, input, txs>>
    /\ UNCHANGED verifVars

SubmitNext == SubmitNextPart006 \/ SubmitNextSigner \/ ReturnBatch

SpecSubmit == SubmitInit /\ [][SubmitNext]_vars

\* The loop of signAndSubmitTransactions is running or has returned.
Submitting == task \in {"part_006.signAndSubmitTransactions",
                        "transaction-signer.signAndSubmitTransactions"}

\* C21: a submission is reported as successful only if the ledger returned
\* tesSUCCESS; every other response, one with a hash and no result code
\* included, is reported as a failure, and the failure carries the exact
\* result code.
C21_SuccessOnlyOnTesSuccess ==
    Submitting =>
        \A k \in 1..Len(output.replies) :
            LET reply == output.replies[k]
                result == output.results[k]
            IN  ~reply.thrown =>
                   /\ result.success <=> CodeOf(reply) = "tesSUCCESS"
                   /\ (~result.success /\ CodeOf(reply) # Undefined)
                         => result.error[2] = CodeOf(reply)

\* C22: every transaction is submitted with the stamping of the moment of its
\* submission: its Sequence is the account's sequence and its
\* LastLedgerSequence is derived from the ledger index at that moment, also
\* for the later transactions of a batch prepared together.
C22_StampedAtSubmission ==
    Submitting =>
        \A k \in 1..Len(txs) :
            /\ txs[k].Sequence = output.stamps[k].Sequence
            /\ txs[k].LastLedgerSequence = LastLedgerOf(output.stamps[k].ledger)

\* A transaction of the batch has failed.
BatchFailed == \E k \in 1..Len(output.results) : ~output.results[k].success

\* C28: once a transaction of the batch has failed, no later transaction of
\* the batch is submitted.
C28_StopAfterFailure == [][(Submitting /\ BatchFailed) => txs' = txs]_vars

(***************************************************************************)
(* Order payloads: the ledger behind the builders                          *)
(***************************************************************************)

\* C23: building an order payload consults no ledger state: for the same
\* domain, pair, side, amount and price createDEXOrder returns the same
\* payload whatever the ledger holds or answers.
C23_BuilderIgnoresLedger ==
    (task = "createDEXOrder" /\ output # NoOutput) =>
        /\ output.built
        /\ output.transaction = DexOffer("rUser2", input.domainId, input.pair,
                                         input.side, input.amount, input.price)

\* An order function has returned or submitted an OfferCreate for a domain.
DomainOfferMade ==
    /\ task \in {"createDEXOrder", "handlePlaceOrder", "permissioned-dex.createDEXOrder"}
    /\ output # NoOutput
    /\ output.built
    /\ output.transaction.DomainID # ""

\* C27: an OfferCreate for a domain is produced only for a member of the
\* domain; for an account that is not a member the order functions return
\* an error and no payload.
C27_MembersOnly ==
    /\ DomainOfferMade => input.isMember
    /\ (task \in {"createDEXOrder", "handlePlaceOrder", "permissioned-dex.createDEXOrder"}
        /\ output # NoOutput /\ ~input.isMember)
          => (~output.built /\ output.error # "none")

(***************************************************************************)
(* Credentials: createCustomCredential and createCredential                *)
(***************************************************************************)

\* Largest length of a credential type text.
MaxTypeLen == 2

\* Accounts that issue and receive credentials.
CredentialAccounts == {"rIsabel", "rAlice", "rBob"}

\* Characters of the credential type texts and URIs: tab, 'A', 'K', 'y'.
TextChars == {9, 65, 75, 121}
CredentialTexts == SeqsUpTo(TextChars, MaxTypeLen)

RECURSIVE BytesToHex(_)
\* Buffer.toString('hex'): two lower-case digits for every byte.
BytesToHex(bytes) ==
    IF bytes = <<>> THEN <<>>
    ELSE <<DigitChar(Head(bytes) \div 16), DigitChar(Head(bytes) % 16)>>
         \o BytesToHex(Tail(bytes))

\* textToHex(text): Buffer.from(text, 'utf8').toString('hex').toUpperCase();
\* the texts are ASCII, one byte for a character.
textToHex(text) == toUpperCase(BytesToHex(text))

\* createCustomCredential(client, issuerAddress, subjectAddress,
\* credentialTypeText, expirationEpochSeconds): the CredentialCreate, with
\* Expiration when one is given.
createCustomCredential(issuerAddress, subjectAddress, credentialTypeText, expirationEpochSeconds) ==
    IF expirationEpochSeconds # NoExpiration
    THEN [TransactionType |-> "CredentialCreate",
          Account |-> issuerAddress,
          Subject |-> subjectAddress,
          CredentialType |-> textToHex(credentialTypeText),
          Expiration |-> expirationEpochSeconds]
    ELSE [TransactionType |-> "CredentialCreate",
          Account |-> issuerAddress,
          Subject |-> subjectAddress,
          CredentialType |-> textToHex(credentialTypeText)]

\* createCredential, the CredentialCreate it submits: Expiration and URI
\* always written, the URI in hex.
credentialCreateTx(issuerAddress, subjectAddress, credentialTypeText, expirationEpochSeconds, uri) ==
    [TransactionType |-> "CredentialCreate",
     Account |-> issuerAddress,
     Subject |-> subjectAddress,
     CredentialType |-> textToHex(credentialTypeText),
     Expiration |-> expirationEpochSeconds,
     URI |-> textToHex(uri)]

CredentialInit ==
    /\ VerifyIdle
    /\ task \in {"createCustomCredential", "createCredential"}
    /\ input \in [issuer : CredentialAccounts, subject : CredentialAccounts,
                  typeText : CredentialTexts,
                  expiration : {NoExpiration, 1},
                  uriGiven : BOOLEAN,
                  txResult : {"tesSUCCESS", "tecDUPLICATE", "throw"}]
    /\ task = "createCustomCredential"
          => (~input.uriGiven /\ input.txResult = "tesSUCCESS")
    /\ output = NoOutput
    /\ txs = <<>>

\* A call of createCustomCredential: the payload is returned.
CallCreateCustomCredential ==
    /\ task = "createCustomCredential"
    /\ output = NoOutput
    /\ output' = [built |-> TRUE,
                  transaction |-> createCustomCredential(input.issuer, input.subject,
                                                         input.typeText, input.expiration),
                  error |-> "none"]
    /\ UNCHANGED <<task, input, txs>>
    /\ UNCHANGED verifVars

\* A call of createCredential: textToHex(uri) throws when no uri is given;
\* else the CredentialCreate is submitted with submitTransaction, which
\* returns the response whatever its result code and rethrows a throw.
CallCreateCredential ==
    /\ task = "createCredential"
    /\ output = NoOutput
    /\ IF ~input.uriGiven
       THEN /\ txs' = txs
            /\ output' = [built |-> FALSE, transaction |-> NoTransaction,
                          error |-> "TypeError"]
       ELSE LET tx == credentialCreateTx(input.issuer, input.subject, input.typeText,
                                         input.expiration, <<65>>)
            IN  /\ txs' = <<tx>>
                /\ output' = [built |-> TRUE, transaction |-> tx,
                              error |-> IF input.txResult = "throw"
                                        THEN "submitAndWait threw" ELSE "none"]
    /\ UNCHANGED <<task, input>>
    /\ UNCHANGED verifVars

CredentialNext == CallCreateCustomCredential \/ CallCreateCredential

SpecCredential == CredentialInit /\ [][CredentialNext]_vars

\* A credential function has returned or thrown.
CredentialDone == task \in {"createCustomCredential", "createCredential"}
                  /\ output # NoOutput

\* C24: whenever the subject account equals the issuer account, issuing a
\* credential fails with a validation error and produces no payload.
C24_SelfIssueRefused ==
    (CredentialDone /\ input.subject = input.issuer) =>
        /\ ~output.built
        /\ output.error = "ValidationError"
        /\ txs = <<>>

(***************************************************************************)
(* Verification flow: what the component does with the result of the poll  *)
(***************************************************************************)

\* pollVerification settles in this step, for the mounted component.
PollSettles ==
    /\ poller = "pollVerification"
    /\ mounted
    /\ pc = "reading"
    /\ pc' \in {"returned", "threw"}

\* C25: when the poll returns SUCCESS while the component is mounted, the
\* flow goes to step 'complete' with the attributes verified; when it returns
\* another state or throws, the flow shows the error and leaves step
\* 'verify'. The result is not dropped because of the component's own step
\* changes.
C25_PollResultApplied ==
    [][PollSettles =>
          IF outcome' = "Succeeded"
          THEN step' = "complete" /\ attributes' = "verified"
          ELSE toast' = "error" /\ step' # "verify"]_vars

(***************************************************************************)
(* User dashboard: currentStep, selectedDomain and isVerified              *)
(***************************************************************************)

\* Domains the selector lists; NoDomain is selectedDomain = null.
DashboardDomains == {"domainA", "domainB", "domainC"}
NoDomain == "null"

UserSteps == {"select-domain", "verify", "trading", "portfolio"}

\* The variant in which the step bar enables a step as soon as isVerified
\* is set.
StepEnabled_WhenVerified(id, currentStep, selectedDomain, isVerified) ==
    LET isActive == id = currentStep
        isCompleted == \/ id = "select-domain" /\ selectedDomain # NoDomain
                       \/ id = "verify" /\ isVerified
                       \/ id = "trading" /\ isVerified
    IN  isCompleted \/ isActive

\* The step bar: a button is disabled unless its step is active or
\* completed; select-domain is completed once a domain is selected, verify
\* once isVerified, trading when isVerified and the portfolio is shown.
StepEnabled(id, currentStep, selectedDomain, isVerified) ==
    LET isActive == id = currentStep
        isCompleted == \/ id = "select-domain" /\ selectedDomain # NoDomain
                       \/ id = "verify" /\ isVerified
                       \/ id = "trading" /\ isVerified /\ currentStep = "portfolio"
    IN  isCompleted \/ isActive

\* The step bar's onClick: select-domain always, trading and portfolio when
\* isVerified, nothing for verify.
StepClicked(id, currentStep, isVerified) ==
    IF id = "select-domain" THEN "select-domain"
    ELSE IF id = "trading" /\ isVerified THEN "trading"
    ELSE IF id = "portfolio" /\ isVerified THEN "portfolio"
    ELSE currentStep

\* The dashboard after login: no domain selected, nothing verified. flowStep
\* is the step of the mounted VerificationFlow; completedFor records the
\* domains for which the flow has called onComplete.
DashboardInit ==
    /\ VerifyIdle
    /\ task = "UserDashboard"
    /\ input \in [walletAddress : WalletAddresses]
    /\ output = [currentStep |-> "select-domain", selectedDomain |-> NoDomain,
                 isVerified |-> FALSE, flowStep |-> "request", completedFor |-> {}]
    /\ txs = <<>>

\* handleDomainSelect, from the DomainSelector shown at select-domain; the
\* VerificationFlow is mounted at step 'request'.
HandleDomainSelect ==
    /\ task = "UserDashboard"
    /\ output.currentStep = "select-domain"
    /\ \E domain \in DashboardDomains :
          output' = [output EXCEPT !.selectedDomain = domain,
                                   !.currentStep = "verify",
                                   !.flowStep = "request"]
    /\ UNCHANGED <<task, input, txs>>
    /\ UNCHANGED verifVars

\* The setStep calls of the mounted VerificationFlow: request to scan and
\* on to verify when the session is created, back to scan on an error,
\* verify to complete on SUCCESS.
FlowSetStep ==
    /\ task = "UserDashboard"
    /\ output.currentStep = "verify"
    /\ output.selectedDomain # NoDomain
    /\ \E next \in {"scan", "verify", "complete"} :
          /\ \/ output.flowStep = "request" /\ next \in {"scan", "verify"}
             \/ output.flowStep = "scan" /\ next = "verify"
             \/ output.flowStep = "verify" /\ next \in {"scan", "complete"}
          /\ output' = [output EXCEPT !.flowStep = next]
    /\ UNCHANGED <<task, input, txs>>
    /\ UNCHANGED verifVars

\* Accept Credential & Continue, shown at step 'complete' of the flow:
\* onComplete is handleVerificationComplete.
HandleVerificationComplete ==
    /\ task = "UserDashboard"
    /\ output.currentStep = "verify"
    /\ output.selectedDomain # NoDomain
    /\ output.flowStep = "complete"
    /\ output' = [output EXCEPT
                     !.isVerified = TRUE,
                     !.currentStep = "trading",
                     !.completedFor = output.completedFor \cup {output.selectedDomain}]
    /\ UNCHANGED <<task, input, txs>>
    /\ UNCHANGED verifVars

\* onBack of the VerificationFlow.
FlowBack ==
    /\ task = "UserDashboard"
    /\ output.currentStep = "verify"
    /\ output.selectedDomain # NoDomain
    /\ output' = [output EXCEPT !.currentStep = "select-domain"]
    /\ UNCHANGED <<task, input, txs>>
    /\ UNCHANGED verifVars

\* A click on a button of the step bar that is not disabled.
StepBarClick ==
    /\ task = "UserDashboard"
    /\ \E id \in UserSteps :
          /\ StepEnabled(id, output.currentStep, output.selectedDomain, output.isVerified)
          /\ StepClicked(id, output.currentStep, output.isVerified) # output.currentStep
          /\ output' = [output EXCEPT
                           !.currentStep = StepClicked(id, output.currentStep,
                                                       output.isVerified)]
    /\ UNCHANGED <<task, input, txs>>
    /\ UNCHANGED verifVars

\* onViewPortfolio of the PermissionedDEX and onBackToTrading of the
\* UserPortfolio.
ViewPortfolio ==
    /\ task = "UserDashboard"
    /\ output.currentStep = "trading"
    /\ output.selectedDomain # NoDomain
    /\ output' = [output EXCEPT !.currentStep = "portfolio"]
    /\ UNCHANGED <<task, input, txs>>
    /\ UNCHANGED verifVars
BackToTrading ==
    /\ task = "UserDashboard"
    /\ output.currentStep = "portfolio"
    /\ output.selectedDomain # NoDomain
    /\ output' = [output EXCEPT !.currentStep = "trading"]
    /\ UNCHANGED <<task, input, txs>>
    /\ UNCHANGED verifVars

DashboardNext ==
    \/ HandleDomainSelect
    \/ FlowSetStep
    \/ HandleVerificationComplete
    \/ FlowBack
    \/ StepBarClick
    \/ ViewPortfolio
    \/ BackToTrading

SpecDashboard == DashboardInit /\ [][DashboardNext]_vars

\* The trading view or the portfolio view is rendered.
TradingShown ==
    /\ task = "UserDashboard"
    /\ output.currentStep \in {"trading", "portfolio"}
    /\ output.selectedDomain # NoDomain

\* C26: the trading view and the portfolio view are shown for the selected
\* domain only if the verification flow has completed for that domain.
C26_TradingOnlyAfterVerification ==
    TradingShown => output.selectedDomain \in output.completedFor

\* C26 witness: after a verification for one domain another domain has been
\* selected and verified, and its trading view is shown.
C26_Witness ==
    /\ TradingShown
    /\ output.currentStep = "trading"
    /\ Cardinality(output.completedFor) = 2
    /\ output.selectedDomain \in output.completedFor

(***************************************************************************)
(* Token creation: the transaction list of createIOUToken                  *)
(***************************************************************************)

\* The calls of client.autofill that succeed before one throws; token
\* creation makes at most six (four flag payloads, trust line, payment).
MaxAutofills == 6

TokenCodes == {<<>>, <<85, 83>>, <<85, 83, 68>>, <<69, 85, 82, 79>>}
TokenAmounts == {"0", "100"}
TokenParties == {"", "rUser1", "rUser2", Undefined}

\* The message of the error a failing client.autofill throws.
AutofillThrew == <<"Error", "autofill threw">>

\* JavaScript truthiness of an optional string argument.
Given(address) == address # Undefined /\ address # ""

\* The object createIOUToken returns.
TokenResult(success, transactions, currencyCode, issuerAddress, error) ==
    [success |-> success, transactions |-> transactions,
     currency |-> currencyCode, issuer |-> issuerAddress, error |-> error]

\* createIOUToken(client, issuerAddress, currencyCode, flags, initialAmount,
\* destination, receiverAddress): validation, the flag payloads, then the
\* trust line of receiverAddress and the payment to destination; a throw,
\* of a validation or of the autofill call number okCalls + 1, returns
\* success: false with the list filled so far.
createIOUToken(issuerAddress, currencyCode, flags, initialAmount, destination, receiverAddress, sequence, okCalls) ==
    LET flagTransactions == setAccountFlags(issuerAddress, flags, sequence)
        n == Len(flagTransactions)
        trustLineTx == Autofill(TrustSetOf(receiverAddress, issuerAddress,
                                           currencyCode, "500000000"), sequence)
        issueTx == Autofill(PaymentOf(issuerAddress, destination, currencyCode,
                                      initialAmount), sequence)
        failed(transactions, error) ==
            TokenResult(FALSE, transactions, currencyCode, issuerAddress, error)
    IN  IF Len(currencyCode) < 3
        THEN failed(<<>>, <<"Error", "Currency code must be at least 3 characters">>)
        ELSE IF issuerAddress = ""
        THEN failed(<<>>, <<"Error", "Issuer address is required">>)
        ELSE IF okCalls < n
        THEN failed(<<>>, AutofillThrew)
        ELSE IF initialAmount # "0" /\ Given(destination)
        THEN IF ~Given(receiverAddress)
             THEN failed(flagTransactions,
                         <<"Error", "Receiver address is required to issue initial tokens">>)
             ELSE IF okCalls < n + 1
             THEN failed(flagTransactions, AutofillThrew)
             ELSE IF okCalls < n + 2
             THEN failed(flagTransactions \o <<trustLineTx>>, AutofillThrew)
             ELSE TokenResult(TRUE, flagTransactions \o <<trustLineTx, issueTx>>,
                              currencyCode, issuerAddress, NoError)
        ELSE TokenResult(TRUE, flagTransactions, currencyCode, issuerAddress, NoError)

\* sendTokenToNewWallet(client, issuerAddress, receiverAddress, currencyCode,
\* amount): the trust line and the payment, or success: false with two
\* empty objects when an autofill throws.
sendTokenToNewWallet(issuerAddress, receiverAddress, currencyCode, amount, sequence, okCalls) ==
    IF okCalls < 2
    THEN [success |-> FALSE, transactions |-> <<>>,
          receiverAddress |-> receiverAddress, error |-> AutofillThrew]
    ELSE [success |-> TRUE,
          transactions |->
              <<Autofill(TrustSetOf(receiverAddress, issuerAddress, currencyCode,
                                    "500000000"), sequence),
                Autofill(PaymentOf(issuerAddress, receiverAddress, currencyCode,
                                   amount), sequence)>>,
          receiverAddress |-> receiverAddress, error |-> NoError]

TokenInit ==
    /\ VerifyIdle
    /\ \/ /\ task = "createIOUToken"
          /\ input \in [issuerAddress : {"", "rIssuer"}, currencyCode : TokenCodes,
                        flags : FlagRequests, initialAmount : TokenAmounts,
                        destination : TokenParties, receiverAddress : TokenParties,
                        sequence : 1..MaxSequence, okCalls : 0..MaxAutofills]
       \/ /\ task = "sendTokenToNewWallet"
          /\ input \in [issuerAddress : {"rIssuer"}, currencyCode : TokenCodes,
                        receiverAddress : {"rUser1", "rUser2"},
                        amount : TokenAmounts,
                        sequence : 1..MaxSequence, okCalls : 0..MaxAutofills]
    /\ output = NoOutput
    /\ txs = <<>>

CallCreateIOUToken ==
    /\ task = "createIOUToken"
    /\ output = NoOutput
    /\ output' = createIOUToken(input.issuerAddress, input.currencyCode, input.flags,
                                input.initialAmount, input.destination,
                                input.receiverAddress, input.sequence, input.okCalls)
    /\ txs' = output'.transactions
    /\ UNCHANGED <<task, input>>
    /\ UNCHANGED verifVars

CallSendTokenToNewWallet ==
    /\ task = "sendTokenToNewWallet"
    /\ output = NoOutput
    /\ output' = sendTokenToNewWallet(input.issuerAddress, input.receiverAddress,
                                      input.currencyCode, input.amount,
                                      input.sequence, input.okCalls)
    /\ txs' = output'.transactions
    /\ UNCHANGED <<task, input>>
    /\ UNCHANGED verifVars

TokenNext == CallCreateIOUToken \/ CallSendTokenToNewWallet

SpecToken == TokenInit /\ [][TokenNext]_vars

\* Token creation has returned its result.
TokenDone == task \in {"createIOUToken", "sendTokenToNewWallet"} /\ output # NoOutput

\* The payload at position k is an issuer flag payload, a trust line, a
\* payment.
IsFlagTx(tx) == tx.TransactionType = "AccountSet"
IsTrustTx(tx) == tx.TransactionType = "TrustSet"
IsPaymentTx(tx) == tx.TransactionType = "Payment"

\* C29: in every transaction list returned by token creation the issuer
\* flag payloads come first, the trust line comes before the payment, and a
\* payment is present only if a trust line for the same currency and
\* receiver precedes it; a failed creation is marked unsuccessful and holds
\* only payloads prepared before the failure.
C29_TokenListOrdered ==
    TokenDone =>
        /\ \A j, k \in 1..Len(txs) :
              (IsFlagTx(txs[k]) /\ ~IsFlagTx(txs[j])) => k < j
        /\ \A k \in 1..Len(txs) :
              IsPaymentTx(txs[k]) =>
                  \E j \in 1..(k - 1) :
                      /\ IsTrustTx(txs[j])
                      /\ txs[j].LimitAmount.currency = txs[k].Amount.currency
                      /\ txs[j].Account = txs[k].Destination
        /\ (output.error # NoError) => ~output.success

(***************************************************************************)
(* Order placement read back by the order book                             *)
(***************************************************************************)

\* The built offer as the ledger returns it among the offers.
ReadBack(tx) == Numbered(<<[TakerGets |-> tx.TakerGets, TakerPays |-> tx.TakerPays]>>)

\* The order of handlePlaceOrder, read by parseOrderBook, is the one entry
\* of its side with the typed amount and price.
PlacedOrderAgrees ==
    LET book == parseOrderBook(ReadBack(output.transaction))
        mine == IF input.side = "buy" THEN book.bids ELSE book.asks
        other == IF input.side = "buy" THEN book.asks ELSE book.bids
    IN  /\ Len(mine) = 1
        /\ Len(other) = 0
        /\ NumEq(mine[1].amount, input.amount)
        /\ NumEq(mine[1].price, input.price)

\* The order of createDEXOrder, read by getOrderBook for its pair, is the
\* one offer of its side, its base leg the amount and the price getOrderBook
\* computes for it, getValue(TakerPays) / getValue(TakerGets), the price.
DexOrderAgrees ==
    LET book == getOrderBook(ReadBack(output.transaction), input.pair)
        mine == IF input.side = "buy" THEN book.buys ELSE book.sells
        other == IF input.side = "buy" THEN book.sells ELSE book.buys
    IN  /\ Len(mine) = 1
        /\ Len(other) = 0
        /\ NumEq(getValue(IF input.side = "buy" THEN mine[1].TakerGets
                          ELSE mine[1].TakerPays), input.amount)
        /\ NumEq(DivToFixed6(getValue(mine[1].TakerPays), getValue(mine[1].TakerGets)),
                 ToFixed6(input.price))

====
